---- MODULE Spec2Model ----
(***************************************************************************)
(* A model of DevToAnalyzer (src/app/analyzer.py): the paginated fetch,    *)
(* the series extraction, the per-article detail fetch and the metrics     *)
(* engine.                                                                 *)
(*                                                                         *)
(* An article is a record of the fields the analyzer reads.  A numeric     *)
(* field holds its value, Absent (the key is not in the JSON object) or    *)
(* Null (the key is there with the value null).  published_at holds the    *)
(* rank of its ISO-8601 string (>= 1) in lexicographic order.              *)
(***************************************************************************)
EXTENDS Integers, Sequences, FiniteSets, TLC

(* ------------------------------ bounds -------------------------------- *)
MaxArticles == 2
MaxPages == 3
MaxPerPage == 2
MaxRefetch == 1

(* --------------------------- JSON payloads ---------------------------- *)
Absent == -1
Null == -2
NoSeries == ""

SeriesIds == {"S1", "S2"}
Timestamps == {1, 2}

Present(v) == v >= 0

(* a tags / tag_list value: a JSON list of strings, one string, null, or   *)
(* no such key; a string is the sequence of its characters                 *)
TagList(l) == [kind |-> "list", list |-> l, str |-> <<>>]
TagString(s) == [kind |-> "str", list |-> <<>>, str |-> s]
NoTags == [kind |-> "absent", list |-> <<>>, str |-> <<>>]
NullTags == [kind |-> "null", list |-> <<>>, str |-> <<>>]

Article(i, s, p, r, c, v, t) ==
    [id |-> i, series |-> s, published_at |-> p,
     public_reactions_count |-> r, comments_count |-> c,
     page_views_count |-> v, reading_time_minutes |-> t,
     series_part |-> Absent,
     tags |-> TagList(<<>>), tag_list |-> NoTags, body_words |-> 0]

Min(a, b) == IF a < b THEN a ELSE b
Max(a, b) == IF a > b THEN a ELSE b

(* --------------------------- the analyzer ----------------------------- *)
VARIABLES
    upstream,           \* the articles the platform holds for the user, in list order
    max_pages,          \* fetch_all_articles' arguments
    articles_per_page,
    pc,                 \* where the run is
    page,               \* fetch_all_articles' locals
    has_more_articles,
    all_articles,
    articles,           \* self.articles
    series,             \* self.series, in insertion order
    requests,           \* the list requests issued, in order
    failed_page,        \* the page whose list request failed, 0 if none
    returned,           \* what fetch_all_articles returned
    ret,                \* where the caller of fetch_all_articles goes on
    detailed_articles,  \* self.detailed_articles
    detailed,           \* get_detailed_articles' local list and loop position
    di,
    detail_requests,    \* the detail requests issued: article id and outcome
    metrics,            \* what calculate_metrics returned
    series_performance, \* what analyze_series_performance returned
    tag_recommendations,\* what generate_tag_recommendations returned
    time_analysis,      \* what analyze_optimal_posting_times returned
    report,             \* what generate_analysis_report returned
    llm_data,           \* what get_data_for_llm_analysis returned
    request,            \* the HTTP request a handler of app.py is answering
    response,           \* the handler's answer
    definitions,        \* which definitions of the report methods are bound
    given_tag,          \* the argument of LLMService._normalize_tag
    normalized          \* what _normalize_tag returned

fetchVars == <<max_pages, articles_per_page, page, has_more_articles, all_articles,
               requests, failed_page, returned>>
detailVars == <<detailed_articles, detailed, di, detail_requests>>
outVars == <<tag_recommendations, time_analysis, report, llm_data>>
resultVars == <<metrics, series_performance, outVars>>
llmVars == <<given_tag, normalized>>
appVars == <<request, response, definitions, llmVars>>

vars == <<upstream, pc, ret, articles, series, fetchVars, detailVars, resultVars,
          appVars>>

(* GET /articles?username=&page=&per_page= *)
PageOf(cat, k, per) ==
    SubSeq(cat, (k - 1) * per + 1, Min(k * per, Len(cat)))

(* ---------------------- _extract_series_info -------------------------- *)
(* `if series_id:` - only an article naming a series is grouped *)
EveryArticleInSeries(a) == TRUE

InSeries(a) == a.series # NoSeries

NewSeries(sid) ==
    [id |-> sid, title |-> sid, articles |-> <<>>,
     total_reactions |-> 0, total_comments |-> 0]

RECURSIVE IndexOfSeries(_, _, _)
IndexOfSeries(dict, sid, k) ==
    IF k > Len(dict) THEN 0
    ELSE IF dict[k].id = sid THEN k
    ELSE IndexOfSeries(dict, sid, k + 1)

GetOr0(v) == IF v = Absent THEN 0 ELSE v

(* the first loop: group by series id and add up reactions and comments;  *)
(* members are kept as positions in arts (the dicts are shared with it)   *)
RECURSIVE GroupSeries(_, _, _)
GroupSeries(arts, i, acc) ==
    IF i > Len(arts) \/ acc.raised THEN acc
    ELSE LET a == arts[i] IN
         IF ~InSeries(a) THEN GroupSeries(arts, i + 1, acc)
         ELSE LET d0 == IF IndexOfSeries(acc.dict, a.series, 1) = 0
                        THEN Append(acc.dict, NewSeries(a.series))
                        ELSE acc.dict
                  k == IndexOfSeries(d0, a.series, 1)
              IN IF a.public_reactions_count = Null \/ a.comments_count = Null
                 THEN [raised |-> TRUE, dict |-> d0]
                 ELSE GroupSeries(arts, i + 1,
                        [raised |-> FALSE,
                         dict |-> [d0 EXCEPT
                            ![k].articles = Append(@, i),
                            ![k].total_reactions = @ + GetOr0(a.public_reactions_count),
                            ![k].total_comments = @ + GetOr0(a.comments_count)]])

(* key=lambda x: x.get('published_at', '') *)
SortKey(a) == IF a.published_at = Absent THEN 0 ELSE a.published_at

(* list.sort is stable: x goes after every element whose key is <= its own *)
RECURSIVE InsertByKey(_, _, _)
InsertByKey(sorted, x, arts) ==
    IF sorted = <<>> THEN <<x>>
    ELSE LET last == sorted[Len(sorted)] IN
         IF SortKey(arts[last]) <= SortKey(arts[x])
         THEN Append(sorted, x)
         ELSE Append(InsertByKey(SubSeq(sorted, 1, Len(sorted) - 1), x, arts), last)

RECURSIVE SortByPublished(_, _, _)
SortByPublished(members, n, arts) ==
    IF n = 0 THEN <<>>
    ELSE InsertByKey(SortByPublished(members, n - 1, arts), members[n], arts)


(* article['series_part'] = i + 1, for the members in sorted order *)
RECURSIVE AddPartNumbers(_, _, _)
AddPartNumbers(arts, sorted, i) ==
    IF i > Len(sorted) THEN arts
    ELSE AddPartNumbers([arts EXCEPT ![sorted[i]].series_part = i], sorted, i + 1)

(* the second loop, over the series in insertion order; a None in the sum *)
(* or in a comparison of the sort raises TypeError                        *)
RECURSIVE FinishSeries(_, _, _)
FinishSeries(dict, k, st) ==
    IF k > Len(dict) \/ st.raised THEN st
    ELSE LET members == dict[k].articles
             nullTime == \E j \in 1..Len(members) :
                            st.arts[members[j]].reading_time_minutes = Null
             nullDate == Len(members) >= 2 /\
                         \E j \in 1..Len(members) :
                            st.arts[members[j]].published_at = Null
         IN IF nullTime \/ nullDate
            THEN [st EXCEPT !.raised = TRUE]
            ELSE LET sorted == SortByPublished(members, Len(members), st.arts)
                 IN FinishSeries(dict, k + 1,
                        [raised |-> FALSE,
                         arts |-> AddPartNumbers(st.arts, sorted, 1),
                         order |-> Append(st.order, sorted)])

(* the result: whether it raised, the articles (part numbers written into *)
(* them), and the new self.series                                         *)
ExtractSeriesInfo(arts) ==
    LET g == GroupSeries(arts, 1, [raised |-> FALSE, dict |-> <<>>])
    IN IF g.raised THEN [raised |-> TRUE, arts |-> arts, series |-> <<>>]
       ELSE LET f == FinishSeries(g.dict, 1,
                        [raised |-> FALSE, arts |-> arts, order |-> <<>>])
            IN [raised |-> f.raised,
                arts |-> f.arts,
                series |-> IF f.raised THEN <<>>
                           ELSE [k \in 1..Len(g.dict) |->
                                   [g.dict[k] EXCEPT !.articles =
                                      [j \in 1..Len(f.order[k]) |->
                                          f.arts[f.order[k][j]]]]]]

(* ------------------------- fetch_all_articles ------------------------- *)
FetchAllArticles ==
    /\ pc = "idle"
    /\ page' = 1
    /\ has_more_articles' = TRUE
    /\ all_articles' = <<>>
    /\ pc' = "fetch_loop"
    /\ ret' = "fetched"
    /\ UNCHANGED <<upstream, articles, series, max_pages, articles_per_page,
                   requests, failed_page, returned, detailVars, resultVars, appVars>>

(* a further call on the same analyzer, after the earlier one returned or  *)
(* raised, with arguments of its own                                       *)
FetchAllArticlesAgain ==
    /\ pc \in {"fetched", "raised"}
    /\ Len(requests) <= MaxRefetch
    /\ max_pages' \in 0..MaxPages
    /\ articles_per_page' \in 1..MaxPerPage
    /\ page' = 1
    /\ has_more_articles' = TRUE
    /\ all_articles' = <<>>
    /\ failed_page' = 0
    /\ pc' = "fetch_loop"
    /\ ret' = "fetched"
    /\ UNCHANGED <<upstream, articles, series, requests, returned, detailVars,
                   resultVars, appVars>>

(* one pass of the while loop: the request fails, or answers a page *)
FetchPage ==
    /\ pc = "fetch_loop"
    /\ has_more_articles /\ page <= max_pages
    /\ requests' = Append(requests, page)
    /\ \/ /\ has_more_articles' = FALSE
          /\ failed_page' = page
          /\ UNCHANGED <<all_articles, page>>
       \/ LET got == PageOf(upstream, page, articles_per_page) IN
          /\ IF got = <<>>
             THEN has_more_articles' = FALSE /\ UNCHANGED <<all_articles, page>>
             ELSE /\ all_articles' = all_articles \o got
                  /\ page' = page + 1
                  /\ UNCHANGED has_more_articles
          /\ UNCHANGED failed_page
    /\ UNCHANGED <<upstream, max_pages, articles_per_page, pc, ret, articles, series,
                   returned, detailVars, resultVars, appVars>>

(* after the loop: store, extract the series, return *)
FetchReturn ==
    /\ pc = "fetch_loop"
    /\ ~(has_more_articles /\ page <= max_pages)
    /\ LET x == ExtractSeriesInfo(all_articles) IN
          /\ articles' = x.arts
          /\ IF x.raised
             THEN pc' = "raised" /\ UNCHANGED <<series, returned>>
             ELSE /\ pc' = ret
                  /\ series' = x.series
                  /\ returned' = x.arts
    /\ ret' = "fetched"
    /\ UNCHANGED <<upstream, max_pages, articles_per_page, page,
                   has_more_articles, all_articles, requests, failed_page,
                   detailVars, resultVars, appVars>>

(* ------------------------ get_detailed_articles ----------------------- *)
DefaultMaxPages == 5
DefaultPerPage == 30
RandLo == 100
RandHi == 2000

(* random.randint(100, 2000): any value of the range; its two ends stand   *)
(* for the range                                                           *)
RandomViews == {RandLo, RandHi}

(* what GET /articles/{id} may answer for article a: the fields of the     *)
(* list entry, with a view count, a null one, or none                      *)
DetailViews == {Absent, Null, 0}
DetailPayloads(a) == { [a EXCEPT !.page_views_count = v] : v \in DetailViews }

Over(d, a) == IF d = Absent THEN a ELSE d

(* {**article, **details}: a key of details wins *)
MergeArticle(a, d) ==
    [a EXCEPT !.published_at = Over(d.published_at, @),
              !.public_reactions_count = Over(d.public_reactions_count, @),
              !.comments_count = Over(d.comments_count, @),
              !.page_views_count = Over(d.page_views_count, @),
              !.reading_time_minutes = Over(d.reading_time_minutes, @),
              !.tags = IF d.tags.kind = "absent" THEN @ ELSE d.tags,
              !.tag_list = IF d.tag_list.kind = "absent" THEN @ ELSE d.tag_list]

NeedsFallbackViews(m) == m.page_views_count \in {Absent, Null}

(* the series block: series_part is copied from the member of self.series  *)
(* with the same id                                                        *)
WithSeriesInfo(m, ser) ==
    LET k == IndexOfSeries(ser, m.series, 1) IN
    IF m.series = NoSeries \/ k = 0 THEN m
    ELSE IF \E j \in 1..Len(ser[k].articles) : ser[k].articles[j].id = m.id
         THEN LET j == CHOOSE j \in 1..Len(ser[k].articles) :
                          /\ ser[k].articles[j].id = m.id
                          /\ \A h \in 1..(j - 1) : ser[k].articles[h].id # m.id
              IN [m EXCEPT !.series_part = GetOr0(ser[k].articles[j].series_part)]
         ELSE m

(* `if details:` - the merged article is appended, a failed request adds   *)
(* nothing                                                                 *)
FailureDropsAll(lst, ok, m) == IF ok THEN Append(lst, m) ELSE <<>>

AfterDetails(lst, ok, m) == IF ok THEN Append(lst, m) ELSE lst

(* calculate_metrics (and the other analyses) start here when              *)
(* self.detailed_articles is empty; get_detailed_articles fetches the      *)
(* list first when self.articles is empty.  After the report, it is the    *)
(* calculate_metrics of get_data_for_llm_analysis that starts here         *)
GetDetailedArticles ==
    /\ pc \in {"idle", "fetched", "reported"}
    /\ pc = "reported" => upstream # <<>>
    /\ detailed_articles = <<>>
    /\ detailed' = <<>>
    /\ di' = 1
    /\ IF articles = <<>>
       THEN /\ max_pages' = DefaultMaxPages
            /\ articles_per_page' = DefaultPerPage
            /\ page' = 1
            /\ has_more_articles' = TRUE
            /\ all_articles' = <<>>
            /\ pc' = "fetch_loop"
            /\ ret' = "details"
       ELSE /\ pc' = "details"
            /\ UNCHANGED <<ret, max_pages, articles_per_page, page,
                           has_more_articles, all_articles>>
    /\ UNCHANGED <<upstream, articles, series, requests, failed_page, returned,
                   detailed_articles, detail_requests, resultVars, appVars>>

(* one pass of the for loop: fetch_article_details fails (None) or answers *)
FetchArticleDetails ==
    /\ pc = "details"
    /\ di <= Len(articles)
    /\ di' = di + 1
    /\ LET a == articles[di] IN
       \/ /\ detail_requests' = Append(detail_requests, [id |-> a.id, ok |-> FALSE])
          /\ detailed' = AfterDetails(detailed, FALSE, a)
       \/ \E d \in DetailPayloads(a) :
          LET m == MergeArticle(a, d) IN
          /\ detail_requests' = Append(detail_requests, [id |-> a.id, ok |-> TRUE])
          /\ \E rnd \in RandomViews :
                /\ NeedsFallbackViews(m) \/ rnd = RandLo
                /\ detailed' = AfterDetails(detailed, TRUE,
                      WithSeriesInfo(
                        IF NeedsFallbackViews(m)
                        THEN [m EXCEPT !.page_views_count = rnd] ELSE m,
                        series))
    /\ UNCHANGED <<upstream, pc, ret, articles, series, fetchVars, detailed_articles,
                   resultVars, appVars>>

ViewCountExists(rows) == \E i \in 1..Len(rows) : rows[i].page_views_count > 0

(* after the loop: the fallback when no article has a view count, store *)
DetailsReturn ==
    /\ pc = "details"
    /\ di > Len(articles)
    /\ IF detailed # <<>> /\ ~ViewCountExists(detailed)
       THEN \E f \in [1..Len(detailed) -> RandomViews] :
               detailed_articles' =
                  [i \in 1..Len(detailed) |->
                      [detailed[i] EXCEPT !.page_views_count = f[i]]]
       ELSE detailed_articles' = detailed
    /\ pc' = "compute"
    /\ UNCHANGED <<upstream, ret, articles, series, fetchVars, detailed, di,
                   detail_requests, resultVars, appVars>>

(* --------------------------- calculate_metrics ------------------------ *)
WordsPerMinute == 225

(* a quotient a / b is kept as the pair; b = 0 is the NaN of an empty mean *)
Q(n, d) == [num |-> n, den |-> d]
IsNaN(q) == q.den = 0
QEq(a, b) == a.num * b.den = b.num * a.den
QGreater(a, b) == a.num * b.den > b.num * a.den

KeepNa(v) == v

(* fillna(0), or the column set to 0 when no article has the key *)
FillNa0(v) == IF Present(v) THEN v ELSE 0

(* _estimate_reading_time, on the number of words of the text *)
EstimateReadingTime(words) ==
    IF words = 0 THEN 1
    ELSE Max((words + WordsPerMinute - 1) \div WordsPerMinute, 1)

RatioToViews(r) == Q(r.public_reactions_count + r.comments_count, r.page_views_count)

EngagementRatio(r) ==
    Q(r.public_reactions_count + r.comments_count, Max(r.page_views_count, 1))

TimeEfficiency(r) ==
    Q(r.public_reactions_count, Max(r.reading_time_minutes, 1))

(* articles_df after the columns are filled and the two ratios added; the  *)
(* synthetic view counts are for a frame without any view count, which     *)
(* after get_detailed_articles is the empty frame only                     *)
Frame(rows) ==
    LET noTimeColumn == \A i \in 1..Len(rows) : rows[i].reading_time_minutes = Absent
        filled == [i \in 1..Len(rows) |->
                     [rows[i] EXCEPT
                        !.page_views_count = FillNa0(@),
                        !.public_reactions_count = FillNa0(@),
                        !.comments_count = FillNa0(@),
                        !.reading_time_minutes =
                            IF noTimeColumn THEN EstimateReadingTime(rows[i].body_words)
                            ELSE FillNa0(@)]]
    IN [i \in 1..Len(rows) |->
          [id |-> filled[i].id,
           published_at |-> filled[i].published_at,
           tags |-> filled[i].tags,
           tag_list |-> filled[i].tag_list,
           page_views_count |-> filled[i].page_views_count,
           public_reactions_count |-> filled[i].public_reactions_count,
           comments_count |-> filled[i].comments_count,
           reading_time_minutes |-> filled[i].reading_time_minutes,
           engagement_ratio |-> EngagementRatio(filled[i]),
           time_efficiency |-> TimeEfficiency(filled[i])]]

MetricColumns ==
    {"page_views_count", "public_reactions_count", "comments_count",
     "engagement_ratio", "time_efficiency"}

ColumnValue(r, column) ==
    CASE column = "page_views_count" -> Q(r.page_views_count, 1)
      [] column = "public_reactions_count" -> Q(r.public_reactions_count, 1)
      [] column = "comments_count" -> Q(r.comments_count, 1)
      [] column = "engagement_ratio" -> r.engagement_ratio
      [] column = "time_efficiency" -> r.time_efficiency

(* df.sort_values(by=column, ascending=False): pandas' default sort kind   *)
(* is quicksort, which is not stable, so rows with equal values come in    *)
(* an order the build decides: tie ranks the rows for that                 *)
SortValuesDescending(frame, column, tie) ==
    LET n == Len(frame)
        key == [i \in 1..n |-> ColumnValue(frame[i], column)]
        Before(i, j) ==
            \/ QGreater(key[i], key[j])
            \/ /\ QEq(key[i], key[j])
               /\ tie[i] < tie[j]
        position == [i \in 1..n |-> 1 + Cardinality({ j \in 1..n : Before(j, i) })]
    IN [p \in 1..n |-> CHOOSE i \in 1..n : position[i] = p]

(* _sort_and_format: the rows in sorted order (index is the row's place in *)
(* the frame, which is fetch order; an article's title is told by its id)  *)
SortAndFormat(frame, column, tie) ==
    LET order == SortValuesDescending(frame, column, tie)
        Row(r, i) ==
          [index |-> i,
           id |-> r.id,
           title |-> r.id,
           page_views_count |-> r.page_views_count,
           public_reactions_count |-> r.public_reactions_count,
           comments_count |-> r.comments_count,
           reading_time_minutes |-> r.reading_time_minutes,
           engagement_ratio |-> r.engagement_ratio,
           time_efficiency |-> r.time_efficiency]
    IN [p \in 1..Len(frame) |-> Row(frame[order[p]], order[p])]

(* ----------------------- _analyze_tag_performance --------------------- *)
Comma == ","
Space == " "
NanText == <<"n", "a", "n">>
NoneText == <<"N", "o", "n", "e">>

(* str.split(',') *)
RECURSIVE SplitComma(_)
SplitComma(s) ==
    IF \A i \in 1..Len(s) : s[i] # Comma THEN <<s>>
    ELSE LET i == CHOOSE i \in 1..Len(s) :
                     s[i] = Comma /\ \A h \in 1..(i - 1) : s[h] # Comma
         IN <<SubSeq(s, 1, i - 1)>> \o SplitComma(SubSeq(s, i + 1, Len(s)))

(* str.strip() *)
RECURSIVE Strip(_)
Strip(s) ==
    IF s = <<>> THEN s
    ELSE IF s[1] = Space THEN Strip(Tail(s))
    ELSE IF s[Len(s)] = Space THEN Strip(SubSeq(s, 1, Len(s) - 1))
    ELSE s

RECURSIVE NonEmptyStripped(_)
NonEmptyStripped(pieces) ==
    IF pieces = <<>> THEN <<>>
    ELSE (IF Strip(Head(pieces)) = <<>> THEN <<>> ELSE <<Strip(Head(pieces))>>)
         \o NonEmptyStripped(Tail(pieces))

(* which column holds the tags: 'tags' if some article has the key, else   *)
(* 'tag_list', else none                                                   *)
TagField(frame) ==
    IF \E i \in 1..Len(frame) : frame[i].tags.kind # "absent" THEN "tags"
    ELSE IF \E i \in 1..Len(frame) : frame[i].tag_list.kind # "absent" THEN "tag_list"
    ELSE "none"

(* the tags read from one cell: a list as it is; anything else through     *)
(* str(), so a missing cell (NaN) reads 'nan' and a null one 'None'        *)
CellTags(v) ==
    CASE v.kind = "list" -> v.list
      [] v.kind = "str" -> NonEmptyStripped(SplitComma(v.str))
      [] v.kind = "absent" -> <<NanText>>
      [] v.kind = "null" -> <<NoneText>>

RowTags(r, field) ==
    IF field = "tags" THEN CellTags(r.tags) ELSE CellTags(r.tag_list)

RECURSIVE IndexOfTag(_, _, _)
IndexOfTag(stats, tag, k) ==
    IF k > Len(stats) THEN 0
    ELSE IF stats[k].tag = tag THEN k
    ELSE IndexOfTag(stats, tag, k + 1)

NewTagStat(tag) ==
    [tag |-> tag, count |-> 0, views |-> 0, reactions |-> 0, comments |-> 0]

CountSetToOne(count) == 1

CountOne(count) == count + 1

(* the body of `for tag in tags` *)
AddTag(stats, tag, r) ==
    IF tag = <<>> THEN stats
    ELSE LET s0 == IF IndexOfTag(stats, tag, 1) = 0
                   THEN Append(stats, NewTagStat(tag)) ELSE stats
             k == IndexOfTag(s0, tag, 1)
         IN [s0 EXCEPT ![k].count = CountOne(@),
                       ![k].views = @ + r.page_views_count,
                       ![k].reactions = @ + r.public_reactions_count,
                       ![k].comments = @ + r.comments_count]

RECURSIVE AddTags(_, _, _, _)
AddTags(stats, tags, j, r) ==
    IF j > Len(tags) THEN stats
    ELSE AddTags(AddTag(stats, tags[j], r), tags, j + 1, r)

RECURSIVE AccumulateTags(_, _, _, _)
AccumulateTags(stats, frame, i, field) ==
    IF i > Len(frame) THEN stats
    ELSE AccumulateTags(AddTags(stats, RowTags(frame[i], field), 1, frame[i]),
                        frame, i + 1, field)

TagEngagementPerArticle(st) ==
    Q(st.reactions + st.comments, Max(st.views \div st.count, 1))

TagEngagement(st) == Q(st.reactions + st.comments, Max(st.views, 1))

WithAverages(st) ==
    [tag |-> st.tag, count |-> st.count, views |-> st.views,
     reactions |-> st.reactions, comments |-> st.comments,
     avg_views |-> Q(st.views, st.count),
     avg_reactions |-> Q(st.reactions, st.count),
     avg_comments |-> Q(st.comments, st.count),
     engagement |-> TagEngagement(st)]

(* tag_list.sort(key=views, reverse=True): stable *)
SortTagsByViews(stats) ==
    LET n == Len(stats)
        Before(i, j) == \/ stats[i].views > stats[j].views
                        \/ stats[i].views = stats[j].views /\ i < j
        position == [i \in 1..n |-> 1 + Cardinality({ j \in 1..n : Before(j, i) })]
    IN [p \in 1..n |-> stats[CHOOSE i \in 1..n : position[i] = p]]

AnalyzeTagPerformance(frame) ==
    IF TagField(frame) = "none" \/ frame = <<>> THEN <<>>
    ELSE LET stats == AccumulateTags(<<>>, frame, 1, TagField(frame))
         IN SortTagsByViews([k \in 1..Len(stats) |-> WithAverages(stats[k])])

(* ---------------------- _analyze_time_performance --------------------- *)
(* published_at counts the hours since a Monday, 00:00 *)
HoursPerDay == 24
DaysPerWeek == 7
DayNames ==
    <<"Monday", "Tuesday", "Wednesday", "Thursday", "Friday", "Saturday", "Sunday">>

(* .dt.day_name() and .dt.hour *)
DayOfWeek(p) == DayNames[((p \div HoursPerDay) % DaysPerWeek) + 1]
HourOfDay(p) == p % HoursPerDay

(* groupby sorts its keys: day names as strings, hours as numbers *)
SortedDayNames ==
    <<"Friday", "Monday", "Saturday", "Sunday", "Thursday", "Tuesday", "Wednesday">>

DayRank(day) == CHOOSE k \in 1..Len(SortedDayNames) : SortedDayNames[k] = day

Unknown == "Unknown"

(* day_of_week and hour_of_day as calculate_metrics sets them: the         *)
(* sentinel 'Unknown' and 0 when the frame has no published_at column, and *)
(* otherwise the day and hour of the timestamp, NaN for a row without one  *)
DayColumn(frame) ==
    LET noColumn == \A i \in 1..Len(frame) : frame[i].published_at = Absent
    IN [i \in 1..Len(frame) |->
          IF noColumn THEN Unknown
          ELSE IF Present(frame[i].published_at)
               THEN DayOfWeek(frame[i].published_at) ELSE "NaN"]

HourColumn(frame) ==
    LET noColumn == \A i \in 1..Len(frame) : frame[i].published_at = Absent
    IN [i \in 1..Len(frame) |->
          IF noColumn THEN 0
          ELSE IF Present(frame[i].published_at)
               THEN HourOfDay(frame[i].published_at) ELSE Null]

RECURSIVE SumOver(_, _, _)
SumOver(frame, members, column) ==
    IF members = {} THEN 0
    ELSE LET i == CHOOSE i \in members : TRUE IN
         frame[i][column] + SumOver(frame, members \ {i}, column)

(* agg: count of id, mean of the three counts (filled, so the mean has no  *)
(* NaN to skip)                                                            *)
TimeGroup(frame, members) ==
    [article_count |-> Cardinality({ i \in members : Present(frame[i].id) }),
     avg_views |-> Q(SumOver(frame, members, "page_views_count"), Cardinality(members)),
     avg_reactions |->
        Q(SumOver(frame, members, "public_reactions_count"), Cardinality(members)),
     avg_comments |-> Q(SumOver(frame, members, "comments_count"), Cardinality(members))]

(* groupby('day_of_week'): the keys sorted, rows with a NaN key dropped *)
ByDay(frame) ==
    LET day == DayColumn(frame)
        days == { day[i] : i \in 1..Len(frame) } \ {"NaN"}
        Rank(d) == IF d = Unknown THEN 0 ELSE DayRank(d)
        place == [d \in days |-> 1 + Cardinality({ e \in days : Rank(e) < Rank(d) })]
    IN [p \in 1..Cardinality(days) |->
          LET d == CHOOSE d \in days : place[d] = p IN
          [day |-> d] @@ TimeGroup(frame, { i \in 1..Len(frame) : day[i] = d })]

(* groupby('hour_of_day') *)
ByHour(frame) ==
    LET hour == HourColumn(frame)
        hours == { hour[i] : i \in 1..Len(frame) } \ {Null}
        place == [h \in hours |-> 1 + Cardinality({ e \in hours : e < h })]
    IN [p \in 1..Cardinality(hours) |->
          LET h == CHOOSE h \in hours : place[h] = p IN
          [hour |-> h] @@ TimeGroup(frame, { i \in 1..Len(frame) : hour[i] = h })]

AnalyzeTimePerformance(frame) ==
    IF frame = <<>> THEN [by_day |-> <<>>, by_hour |-> <<>>]
    ELSE [by_day |-> ByDay(frame), by_hour |-> ByHour(frame)]

(* ---------------------- _calculate_overall_stats ---------------------- *)
RECURSIVE SumOf(_, _, _)
SumOf(frame, i, column) ==
    IF i > Len(frame) THEN 0
    ELSE (CASE column = "page_views_count" -> frame[i].page_views_count
            [] column = "public_reactions_count" -> frame[i].public_reactions_count
            [] column = "comments_count" -> frame[i].comments_count
            [] column = "reading_time_minutes" -> frame[i].reading_time_minutes)
         + SumOf(frame, i + 1, column)

(* Series.mean(): the sum over the number of rows, NaN for no rows *)
MeanOf(frame, column) == Q(SumOf(frame, 1, column), Len(frame))

MostUsedCount == 5

(* _get_most_used_tags: the tags used by most articles, at most five *)
GetMostUsedTags(frame) ==
    LET stats == IF TagField(frame) = "none" THEN <<>>
                 ELSE AccumulateTags(<<>>, frame, 1, TagField(frame))
        n == Len(stats)
        Before(i, j) == \/ stats[i].count > stats[j].count
                        \/ stats[i].count = stats[j].count /\ i < j
        position == [i \in 1..n |-> 1 + Cardinality({ j \in 1..n : Before(j, i) })]
    IN [p \in 1..Min(n, MostUsedCount) |->
           stats[CHOOSE i \in 1..n : position[i] = p].tag]

(* the overall statistics with the tags of the leading TagStats instead *)
StatsWithLeadingTags(frame) ==
    LET tp == AnalyzeTagPerformance(frame) IN
    [total_articles |-> Len(frame),
     most_used_tags |-> [k \in 1..Min(Len(tp), MostUsedCount) |-> tp[k].tag]]

CalculateOverallStats(frame) ==
    [total_articles |-> Len(frame),
     total_views |-> SumOf(frame, 1, "page_views_count"),
     total_reactions |-> SumOf(frame, 1, "public_reactions_count"),
     total_comments |-> SumOf(frame, 1, "comments_count"),
     avg_views_per_article |-> MeanOf(frame, "page_views_count"),
     avg_reactions_per_article |-> MeanOf(frame, "public_reactions_count"),
     avg_comments_per_article |-> MeanOf(frame, "comments_count"),
     avg_reading_time |-> MeanOf(frame, "reading_time_minutes"),
     most_used_tags |-> GetMostUsedTags(frame)]

(* what calculate_metrics returns for the detailed articles `rows` *)
CalculateMetrics(rows, tie) ==
    LET frame == Frame(rows) IN
    [status |-> "ok",
     most_viewed |-> SortAndFormat(frame, "page_views_count", tie),
     most_reactions |-> SortAndFormat(frame, "public_reactions_count", tie),
     most_commented |-> SortAndFormat(frame, "comments_count", tie),
     highest_engagement |-> SortAndFormat(frame, "engagement_ratio", tie),
     best_time_efficiency |-> SortAndFormat(frame, "time_efficiency", tie),
     tag_performance |-> AnalyzeTagPerformance(frame),
     time_performance |-> AnalyzeTimePerformance(frame),
     overall_stats |-> CalculateOverallStats(frame)]

(* calculate_metrics once self.detailed_articles is there (or was fetched  *)
(* and is empty)                                                           *)
ComputeMetrics ==
    /\ pc = "compute"
    /\ \E tie \in Permutations(1..Len(detailed_articles)) :
          metrics' = CalculateMetrics(detailed_articles, tie)
    /\ pc' = "metrics_done"
    /\ UNCHANGED <<upstream, ret, articles, series, fetchVars, detailVars,
                   series_performance, outVars, appVars>>

(* ---------------------- analyze_series_performance -------------------- *)
RECURSIVE SumMembers(_, _, _)
SumMembers(members, i, column) ==
    IF i > Len(members) THEN 0
    ELSE GetOr0(CASE column = "page_views_count" -> members[i].page_views_count
                  [] column = "public_reactions_count" -> members[i].public_reactions_count
                  [] column = "comments_count" -> members[i].comments_count)
         + SumMembers(members, i + 1, column)

(* a None among the values summed raises TypeError *)
SeriesSumRaises(ser) ==
    \E k \in 1..Len(ser) : \E j \in 1..Len(ser[k].articles) :
        \/ ser[k].articles[j].page_views_count = Null
        \/ ser[k].articles[j].public_reactions_count = Null
        \/ ser[k].articles[j].comments_count = Null

(* views_last / views_first, of the members as self.series holds them *)
CompletionRate(members) ==
    LET views_first == GetOr0(members[1].page_views_count)
        views_last == GetOr0(members[Len(members)].page_views_count)
    IN IF Len(members) > 1 /\ views_first > 0
       THEN Q(views_last, views_first)
       ELSE Q(0, 1)

SeriesEntry(sd) ==
    LET n == Len(sd.articles) IN
    [id |-> sd.id,
     article_count |-> n,
     total_reactions |-> SumMembers(sd.articles, 1, "public_reactions_count"),
     total_comments |-> SumMembers(sd.articles, 1, "comments_count"),
     total_views |-> SumMembers(sd.articles, 1, "page_views_count"),
     avg_views |-> Q(SumMembers(sd.articles, 1, "page_views_count"), n),
     completion_rate |-> CompletionRate(sd.articles),
     articles |-> [j \in 1..n |->
                     [id |-> sd.articles[j].id,
                      part |-> GetOr0(sd.articles[j].series_part),
                      views |-> GetOr0(sd.articles[j].page_views_count)]]]

(* series_performance.sort(key=total_reactions, reverse=True): stable *)
SeriesPerformance(ser) ==
    LET n == Len(ser)
        entry == [k \in 1..n |-> SeriesEntry(ser[k])]
        Before(i, j) == \/ entry[i].total_reactions > entry[j].total_reactions
                        \/ entry[i].total_reactions = entry[j].total_reactions /\ i < j
        position == [i \in 1..n |-> 1 + Cardinality({ j \in 1..n : Before(j, i) })]
    IN [p \in 1..n |-> entry[CHOOSE i \in 1..n : position[i] = p]]

AnalyzeSeriesPerformance ==
    /\ pc = "metrics_done"
    /\ IF SeriesSumRaises(series)
       THEN pc' = "raised" /\ UNCHANGED series_performance
       ELSE /\ series_performance' = SeriesPerformance(series)
            /\ pc' = "done"
    /\ UNCHANGED <<upstream, ret, articles, series, fetchVars, detailVars, metrics,
                   outVars, appVars>>

(* ---------------------- generate_tag_recommendations ------------------ *)
(* pd.DataFrame(self.detailed_articles) as it is: a key no article has is  *)
(* no column, for which row.get(key, 0) answers 0; a key only some         *)
(* articles have, or a null, is NaN/None in the others                     *)
RawGet(rows, i, column) ==
    IF \A k \in 1..Len(rows) : rows[k][column] = Absent THEN 0 ELSE rows[i][column]

RawFrame(rows) ==
    [i \in 1..Len(rows) |->
        [rows[i] EXCEPT
           !.page_views_count = RawGet(rows, i, "page_views_count"),
           !.public_reactions_count = RawGet(rows, i, "public_reactions_count"),
           !.comments_count = RawGet(rows, i, "comments_count")]]

(* the tags the combination loop reads from one row *)
RecTags(r) ==
    CASE r.tags.kind = "list" -> r.tags.list
      [] r.tags.kind = "str" -> NonEmptyStripped(SplitComma(r.tags.str))
      [] r.tags.kind \notin {"list", "str"} /\ r.tag_list.kind = "list" -> r.tag_list.list
      [] r.tags.kind \notin {"list", "str"} /\ r.tag_list.kind = "str" ->
            NonEmptyStripped(SplitComma(r.tag_list.str))
      [] OTHER -> <<>>

(* int(NaN) and int(None) in _analyze_tag_performance, None + n in the     *)
(* combination loop: a row that carries a tag and lacks one of the counts  *)
TagRecommendationsRaise(frame) ==
    \E i \in 1..Len(frame) :
       /\ \/ /\ TagField(frame) # "none"
             /\ \E j \in 1..Len(RowTags(frame[i], TagField(frame))) :
                   RowTags(frame[i], TagField(frame))[j] # <<>>
          \/ Len(RecTags(frame[i])) >= 2
       /\ \/ ~Present(frame[i].page_views_count)
          \/ ~Present(frame[i].public_reactions_count)
          \/ ~Present(frame[i].comments_count)

QAdd(a, b) == Q(a.num * b.den + b.num * a.den, a.den * b.den)

(* list.sort(key=..., reverse=True): stable, equal keys keep their order *)
(* key[i] is the sort key of list[i]                                       *)
StableSortDescending(list, key) ==
    LET n == Len(list)
        Before(i, j) == \/ QGreater(key[i], key[j])
                        \/ QEq(key[i], key[j]) /\ i < j
        position == [i \in 1..n |-> 1 + Cardinality({ j \in 1..n : Before(j, i) })]
    IN [p \in 1..n |-> list[CHOOSE i \in 1..n : position[i] = p]]

Take(list, n) == SubSeq(list, 1, Min(n, Len(list)))

ViewsKey(st) == Q(st.views, 1)

(* x.get('avg_reactions', 0) + x.get('avg_comments', 0) *)
EngagementKey(st) == QAdd(st.avg_reactions, st.avg_comments)

MinTopTags == 3
TopTagCount == 3
UnderusedMaxCount == 2
UnderusedListed == 3
MinComboPosts == 2
CombosListed == 3

EmittedAlways(items, group) == <<group>>

(* `if items: recommendations.append(...)` *)
Emitted(items, group) == IF items # <<>> THEN <<group>> ELSE <<>>

TopPerforming(performance) ==
    IF Len(performance) >= MinTopTags
    THEN LET top_tags == Take(performance, TopTagCount) IN
         <<[type |-> "top_performing",
            tags |-> [k \in 1..Len(top_tags) |-> top_tags[k].tag],
            metrics |-> [k \in 1..Len(top_tags) |->
                           [tag |-> top_tags[k].tag,
                            avg_reactions |-> top_tags[k].avg_reactions,
                            avg_comments |-> top_tags[k].avg_comments]]]>>
    ELSE <<>>

AnyTag(st) == TRUE

IsUnderused(st) ==
    /\ st.count <= UnderusedMaxCount
    /\ QGreater(QAdd(st.avg_reactions, st.avg_comments), Q(0, 1))

UnderusedTags(performance) ==
    LET kept == SelectSeq(performance, IsUnderused)
    IN StableSortDescending(kept, [i \in 1..Len(kept) |-> EngagementKey(kept[i])])

Underused(performance) ==
    LET underused_tags == UnderusedTags(performance)
        listed == Take(underused_tags, UnderusedListed)
    IN Emitted(underused_tags,
          [type |-> "underused",
           tags |-> [k \in 1..Len(listed) |-> listed[k].tag],
           metrics |-> [k \in 1..Len(listed) |->
                          [tag |-> listed[k].tag,
                           avg_reactions |-> listed[k].avg_reactions,
                           avg_comments |-> listed[k].avg_comments,
                           count |-> listed[k].count]]])

(* the code points' order of the characters the tags are written in *)
Chars ==
    <<" ", ",", "N", "P", "a", "b", "c", "d", "e", "g", "h", "i", "j", "l", "m",
      "n", "o", "p", "r", "s", "t", "v", "y">>

Ord(c) == CHOOSE k \in 1..Len(Chars) : Chars[k] = c

(* str < str *)
RECURSIVE TextLess(_, _)
TextLess(a, b) ==
    IF b = <<>> THEN FALSE
    ELSE IF a = <<>> THEN TRUE
    ELSE IF a[1] = b[1] THEN TextLess(Tail(a), Tail(b))
    ELSE Ord(a[1]) < Ord(b[1])

(* tuple(sorted([tags[i], tags[j]])) *)
SortedPair(a, b) == IF TextLess(b, a) THEN <<b, a>> ELSE <<a, b>>

(* the pairs of one row, in the order of the two nested loops *)
RECURSIVE PairsFrom(_, _, _)
PairsFrom(tags, i, j) ==
    IF i >= Len(tags) THEN <<>>
    ELSE IF j > Len(tags) THEN PairsFrom(tags, i + 1, i + 2)
    ELSE <<SortedPair(tags[i], tags[j])>> \o PairsFrom(tags, i, j + 1)

RECURSIVE IndexOfCombo(_, _, _)
IndexOfCombo(combos, combo, k) ==
    IF k > Len(combos) THEN 0
    ELSE IF combos[k].combo = combo THEN k
    ELSE IndexOfCombo(combos, combo, k + 1)

AddCombo(combos, combo, engagement) ==
    LET k == IndexOfCombo(combos, combo, 1) IN
    IF k = 0
    THEN Append(combos, [combo |-> combo, count |-> 1,
                         total_engagement |-> engagement,
                         avg_engagement |-> Q(engagement, 1)])
    ELSE [combos EXCEPT
            ![k] = [combo |-> combo, count |-> @.count + 1,
                    total_engagement |-> @.total_engagement + engagement,
                    avg_engagement |->
                        Q(@.total_engagement + engagement, @.count + 1)]]

RECURSIVE AddCombos(_, _, _, _)
AddCombos(combos, pairs, k, engagement) ==
    IF k > Len(pairs) THEN combos
    ELSE AddCombos(AddCombo(combos, pairs[k], engagement), pairs, k + 1, engagement)

RECURSIVE TagCombinations(_, _, _)
TagCombinations(combos, frame, i) ==
    IF i > Len(frame) THEN combos
    ELSE TagCombinations(
            AddCombos(combos, PairsFrom(RecTags(frame[i]), 1, 2), 1,
                      frame[i].public_reactions_count + frame[i].comments_count),
            frame, i + 1)

ComboKey(c) == c.avg_engagement

BestCombos(frame) ==
    LET Enough(c) == c.count >= MinComboPosts
        kept == SelectSeq(TagCombinations(<<>>, frame, 1), Enough)
    IN StableSortDescending(kept, [i \in 1..Len(kept) |-> ComboKey(kept[i])])

Combinations(frame) ==
    LET best_combos == BestCombos(frame)
        listed == Take(best_combos, CombosListed)
    IN Emitted(best_combos,
          [type |-> "combinations",
           combinations |-> [k \in 1..Len(listed) |->
                               [tags |-> listed[k].combo,
                                avg_engagement |-> listed[k].avg_engagement,
                                count |-> listed[k].count]]])

React == <<"r", "e", "a", "c", "t">>
Ai == <<"a", "i">>
MachineLearning ==
    <<"m", "a", "c", "h", "i", "n", "e", "l", "e", "a", "r", "n", "i", "n", "g">>
Javascript == <<"j", "a", "v", "a", "s", "c", "r", "i", "p", "t">>
Python == <<"p", "y", "t", "h", "o", "n">>

TrendingTags == <<React, Ai, MachineLearning, Javascript, Python>>

(* str.lower() *)
Lower(tag) ==
    [k \in 1..Len(tag) |->
        CASE tag[k] = "N" -> "n" [] tag[k] = "P" -> "p" [] OTHER -> tag[k]]

RECURSIVE TrendingMatches(_, _)
TrendingMatches(performance, t) ==
    IF t > Len(TrendingTags) THEN <<>>
    ELSE LET hits == { k \in 1..Len(performance) :
                         Lower(TrendingTags[t]) = Lower(performance[k].tag) }
         IN (IF hits = {} THEN <<>>
             ELSE <<performance[CHOOSE k \in hits : \A h \in hits : k <= h]>>)
            \o TrendingMatches(performance, t + 1)

Trending(performance) ==
    LET matches == TrendingMatches(performance, 1) IN
    Emitted(matches,
       [type |-> "trending",
        tags |-> [k \in 1..Len(matches) |-> matches[k].tag]])

(* the tag performance of the raw frame, re-sorted by engagement *)
RecommendationPerformance(rows) ==
    LET performance == AnalyzeTagPerformance(RawFrame(rows))
    IN StableSortDescending(performance,
           [i \in 1..Len(performance) |-> EngagementKey(performance[i])])

TagRecommendations(rows) ==
    IF rows = <<>> THEN [status |-> "ok", groups |-> <<>>]
    ELSE IF TagRecommendationsRaise(RawFrame(rows)) THEN [status |-> "raised"]
    ELSE LET performance == RecommendationPerformance(rows) IN
         [status |-> "ok",
          groups |-> TopPerforming(performance) \o Underused(performance)
                     \o Combinations(RawFrame(rows)) \o Trending(performance)]

(* a fetch at every call, whatever the analyzer holds *)
FetchAnyway ==
    /\ requests' = Append(requests, 1)
    /\ UNCHANGED <<max_pages, articles_per_page, page, has_more_articles,
                   all_articles, failed_page, returned, articles, series, detailed, di>>

(* `if not self.detailed_articles: self.get_detailed_articles()`: for a    *)
(* user without articles the call asks for page 1 once more and finds      *)
(* nothing                                                                 *)
EnsureDetails ==
    IF detailed_articles = <<>>
    THEN /\ requests' = Append(requests, 1)
         /\ failed_page' \in {0, 1}
         /\ max_pages' = DefaultMaxPages
         /\ articles_per_page' = DefaultPerPage
         /\ page' = 1
         /\ has_more_articles' = FALSE
         /\ all_articles' = <<>>
         /\ articles' = <<>>
         /\ series' = <<>>
         /\ returned' = <<>>
         /\ detailed' = <<>>
         /\ di' = 1
    ELSE UNCHANGED <<fetchVars, articles, series, detailed, di>>

(* generate_tag_recommendations on an analyzer whose details were fetched *)
GenerateTagRecommendations ==
    /\ pc = "compute"
    /\ detailed_articles = <<>> => upstream = <<>>
    /\ EnsureDetails
    /\ tag_recommendations' = TagRecommendations(detailed_articles)
    /\ pc' = IF tag_recommendations'.status = "raised" THEN "raised" ELSE "recommended"
    /\ UNCHANGED <<upstream, ret, detailed_articles, detail_requests, metrics,
                   series_performance, time_analysis, report, llm_data, appVars>>

(* -------------------- analyze_optimal_posting_times ------------------- *)
(* the frame with the day, the hour and the engagement of each article; an *)
(* article without published_at has NaT there and falls out of every group *)
PostingFrame(rows) ==
    LET raw == RawFrame(rows)
        dated == SelectSeq(raw, LAMBDA r : Present(r.published_at))
    IN [i \in 1..Len(dated) |->
          [id |-> dated[i].id,
           day |-> DayOfWeek(dated[i].published_at),
           hour |-> HourOfDay(dated[i].published_at),
           page_views_count |-> dated[i].page_views_count,
           public_reactions_count |-> dated[i].public_reactions_count,
           comments_count |-> dated[i].comments_count,
           engagement |->
              IF Present(dated[i].public_reactions_count)
                 /\ Present(dated[i].comments_count)
              THEN dated[i].public_reactions_count + dated[i].comments_count
              ELSE Null]]

(* None + n, for a column that holds nothing but None *)
PostingTimesRaise(rows) ==
    LET raw == RawFrame(rows) IN
    \/ \A i \in 1..Len(raw) : raw[i].public_reactions_count = Null
    \/ \A i \in 1..Len(raw) : raw[i].comments_count = Null

(* sum and mean of a column over the rows of a group, NaN skipped *)
RECURSIVE SumSkipNa(_, _, _)
SumSkipNa(frame, members, column) ==
    IF members = {} THEN 0
    ELSE LET i == CHOOSE i \in members : TRUE IN
         FillNa0(frame[i][column]) + SumSkipNa(frame, members \ {i}, column)

MeanSkipNa(frame, members, column) ==
    Q(SumSkipNa(frame, members, column),
      Cardinality({ i \in members : Present(frame[i][column]) }))

TimeSlot(frame, members) ==
    [article_count |-> Cardinality({ i \in members : Present(frame[i].id) }),
     avg_views |-> MeanSkipNa(frame, members, "page_views_count"),
     total_views |-> SumSkipNa(frame, members, "page_views_count"),
     avg_reactions |-> MeanSkipNa(frame, members, "public_reactions_count"),
     total_reactions |-> SumSkipNa(frame, members, "public_reactions_count"),
     avg_comments |-> MeanSkipNa(frame, members, "comments_count"),
     total_comments |-> SumSkipNa(frame, members, "comments_count"),
     avg_engagement |-> MeanSkipNa(frame, members, "engagement"),
     total_engagement |-> SumSkipNa(frame, members, "engagement")]

(* groupby('day_of_week') *)
DayStats(frame) ==
    LET days == { frame[i].day : i \in 1..Len(frame) }
        place == [d \in days |->
                    1 + Cardinality({ e \in days : DayRank(e) < DayRank(d) })]
    IN [p \in 1..Cardinality(days) |->
          LET d == CHOOSE d \in days : place[d] = p IN
          [day |-> d,
           stats |-> TimeSlot(frame, { i \in 1..Len(frame) : frame[i].day = d })]]

(* groupby('hour_of_day') *)
HourStats(frame) ==
    LET hours == { frame[i].hour : i \in 1..Len(frame) }
        place == [h \in hours |-> 1 + Cardinality({ e \in hours : e < h })]
    IN [p \in 1..Cardinality(hours) |->
          LET h == CHOOSE h \in hours : place[h] = p IN
          [hour |-> h,
           stats |-> TimeSlot(frame, { i \in 1..Len(frame) : frame[i].hour = h })]]

(* groupby(['day_of_week', 'hour_of_day']) *)
DayHourStats(frame) ==
    LET keys == { <<frame[i].day, frame[i].hour>> : i \in 1..Len(frame) }
        Earlier(a, b) == \/ DayRank(a[1]) < DayRank(b[1])
                         \/ a[1] = b[1] /\ a[2] < b[2]
        place == [k \in keys |-> 1 + Cardinality({ e \in keys : Earlier(e, k) })]
    IN [p \in 1..Cardinality(keys) |->
          LET k == CHOOSE k \in keys : place[k] = p IN
          [day |-> k[1], hour |-> k[2],
           stats |-> TimeSlot(frame, { i \in 1..Len(frame) :
                                         frame[i].day = k[1] /\ frame[i].hour = k[2] })]]

MinSlotArticles == 2
BestSlotCount == 5

EverySlot(slot) == TRUE

(* day_hour_stats['article_count'] >= 2 *)
Significant(slot) == slot.stats.article_count >= MinSlotArticles

(* sort_values('avg_engagement', ascending=False): NaN last, and equal     *)
(* values in an order the sort decides: tie ranks them, and the model      *)
(* follows the order they stood in and its reverse                         *)
SortSlotsDescending(slots, tie) ==
    LET n == Len(slots)
        key == [i \in 1..n |-> slots[i].stats.avg_engagement]
        Before(i, j) ==
            \/ ~IsNaN(key[i]) /\ IsNaN(key[j])
            \/ ~IsNaN(key[i]) /\ ~IsNaN(key[j]) /\ QGreater(key[i], key[j])
            \/ /\ \/ IsNaN(key[i]) /\ IsNaN(key[j])
                  \/ ~IsNaN(key[i]) /\ ~IsNaN(key[j]) /\ QEq(key[i], key[j])
               /\ tie[i] < tie[j]
        position == [i \in 1..n |-> 1 + Cardinality({ j \in 1..n : Before(j, i) })]
    IN [p \in 1..n |-> slots[CHOOSE i \in 1..n : position[i] = p]]

BestCombinations(by_day_hour, tie) ==
    Take(SortSlotsDescending(SelectSeq(by_day_hour, Significant), tie), BestSlotCount)

NoTimeAnalysis ==
    [status |-> "ok", by_day |-> <<>>, by_hour |-> <<>>, by_day_hour |-> <<>>,
     best_combinations |-> <<>>]

OptimalPostingTimes(rows, reversed) ==
    IF rows = <<>> \/ \A i \in 1..Len(rows) : rows[i].published_at = Absent
    THEN NoTimeAnalysis
    ELSE IF PostingTimesRaise(rows) THEN [status |-> "raised"]
    ELSE LET frame == PostingFrame(rows)
             by_day_hour == DayHourStats(frame)
             n == Len(SelectSeq(by_day_hour, Significant))
             tie == IF reversed THEN [i \in 1..n |-> n + 1 - i] ELSE [i \in 1..n |-> i]
         IN [status |-> "ok",
             by_day |-> DayStats(frame),
             by_hour |-> HourStats(frame),
             by_day_hour |-> by_day_hour,
             best_combinations |-> BestCombinations(by_day_hour, tie)]

AnalyzeOptimalPostingTimes ==
    /\ pc = "compute"
    /\ detailed_articles = <<>> => upstream = <<>>
    /\ EnsureDetails
    /\ \E reversed \in BOOLEAN :
          time_analysis' = OptimalPostingTimes(detailed_articles, reversed)
    /\ pc' = IF time_analysis'.status = "raised" THEN "raised" ELSE "times_done"
    /\ UNCHANGED <<upstream, ret, detailed_articles, detail_requests, metrics,
                   series_performance, tag_recommendations, report, llm_data, appVars>>

(* ---------- generate_analysis_report, get_data_for_llm_analysis ------- *)
(* analyzer.py defines each of the two methods twice: in the body of class *)
(* DevToAnalyzer, and in the lines ahead of the class; `definitions` says  *)
(* which pair an analyzer runs                                             *)
InClass == "class"
AheadOfClass == "ahead"

ReportRankings == 10
ReportTags == 15
LlmPosts == 5
LlmTags == 10
LlmSeries == 5
LlmHours == 5
LlmCombinations == 3

(* the return value of generate_analysis_report, from what calculate_metrics *)
(* and, ahead of the class, analyze_series_performance,                    *)
(* analyze_optimal_posting_times and generate_tag_recommendations returned *)
AnalysisReport(defs, m, series_analysis, times, recommendations) ==
    LET top_posts ==
           [by_views |-> Take(m.most_viewed, ReportRankings),
            by_reactions |-> Take(m.most_reactions, ReportRankings),
            by_comments |-> Take(m.most_commented, ReportRankings),
            by_engagement |-> Take(m.highest_engagement, ReportRankings),
            by_time_efficiency |-> Take(m.best_time_efficiency, ReportRankings)]
        best_publishing_times ==
           [by_day |-> m.time_performance.by_day,
            by_hour |-> m.time_performance.by_hour]
    IN IF defs = InClass
       THEN [status |-> "ok",
             overall_stats |-> m.overall_stats,
             top_posts |-> top_posts,
             tag_performance |-> Take(m.tag_performance, ReportTags),
             best_publishing_times |-> best_publishing_times]
       ELSE [status |-> "ok",
             overall_stats |-> m.overall_stats,
             top_posts |-> top_posts,
             tag_performance |-> Take(m.tag_performance, ReportTags),
             tag_recommendations |-> recommendations.groups,
             best_publishing_times |-> best_publishing_times,
             detailed_time_analysis |-> times,
             series_analysis |-> series_analysis]

(* sorted(..., key=avg_views, reverse=True) *)
AvgViewsKey(slot) == slot.avg_views

SortByAvgViews(slots) ==
    StableSortDescending(slots, [i \in 1..Len(slots) |-> AvgViewsKey(slots[i])])

EverySeries(series_analysis) == series_analysis

(* series_analysis[:5] *)
LeadingSeries(series_analysis) == Take(series_analysis, LlmSeries)

(* the return value of get_data_for_llm_analysis *)
DataForLlm(defs, m, series_analysis, times, recommendations) ==
    LET most_viewed == Take(m.most_viewed, LlmPosts)
        highest_engagement == Take(m.highest_engagement, LlmPosts)
        tags == Take(m.tag_performance, LlmTags)
        leading_series == LeadingSeries(series_analysis)
        top_performing_posts ==
           [k \in 1..Len(most_viewed) |->
               [title |-> most_viewed[k].title,
                views |-> most_viewed[k].page_views_count,
                reactions |-> most_viewed[k].public_reactions_count,
                comments |-> most_viewed[k].comments_count,
                reading_time |-> most_viewed[k].reading_time_minutes]]
        highest_engagement_posts ==
           [k \in 1..Len(highest_engagement) |->
               [title |-> highest_engagement[k].title,
                engagement_ratio |-> highest_engagement[k].engagement_ratio,
                views |-> highest_engagement[k].page_views_count,
                reactions |-> highest_engagement[k].public_reactions_count]]
        top_tags ==
           [k \in 1..Len(tags) |->
               [tag |-> tags[k].tag, posts |-> tags[k].count,
                avg_views |-> tags[k].avg_views,
                avg_reactions |-> tags[k].avg_reactions,
                engagement |-> tags[k].engagement]]
        series_projection ==
           [k \in 1..Len(leading_series) |->
               [title |-> leading_series[k].title,
                article_count |-> leading_series[k].article_count,
                avg_reactions |-> leading_series[k].avg_reactions,
                completion_rate |-> leading_series[k].completion_rate]]
        best_days == SortByAvgViews(m.time_performance.by_day)
        best_hours ==
            Take(SortByAvgViews(m.time_performance.by_hour), LlmHours)
    IN IF defs = InClass
       THEN [status |-> "ok",
             total_articles |-> m.overall_stats.total_articles,
             top_performing_posts |-> top_performing_posts,
             highest_engagement_posts |-> highest_engagement_posts,
             top_tags |-> top_tags,
             best_days |-> best_days,
             best_hours |-> best_hours]
       ELSE [status |-> "ok",
             total_articles |-> m.overall_stats.total_articles,
             top_performing_posts |-> top_performing_posts,
             highest_engagement_posts |-> highest_engagement_posts,
             top_tags |-> top_tags,
             tag_recommendations |-> recommendations.groups,
             series_performance |-> series_projection,
             best_days |-> best_days,
             best_hours |-> best_hours,
             best_day_hour_combinations |->
                 Take(times.best_combinations, LlmCombinations)]

(* the return statement of generate_analysis_report, once the calls it     *)
(* makes have returned what the state holds; the definition in the class   *)
(* calls calculate_metrics only                                            *)
GenerateAnalysisReport ==
    /\ \/ pc = "assemble"
       \/ pc = "metrics_done" /\ definitions = InClass /\ report.status = "none"
    /\ report' = AnalysisReport(definitions, metrics, series_performance,
                                time_analysis, tag_recommendations)
    /\ pc' = "reported"
    /\ UNCHANGED <<upstream, ret, articles, series, fetchVars, detailVars, metrics,
                   series_performance, tag_recommendations, time_analysis, llm_data,
                   appVars>>

(* get_data_for_llm_analysis, which the handlers call after the report:    *)
(* its calculate_metrics computes again what the state holds when the      *)
(* details are there (or the user has no article), and has just run, from  *)
(* a new fetch, when they were not                                         *)
GetDataForLlmAnalysis ==
    /\ \/ /\ pc = "reported"
          /\ detailed_articles = <<>> => upstream = <<>>
          /\ EnsureDetails
       \/ /\ pc = "metrics_done" /\ report.status # "none"
          /\ UNCHANGED <<fetchVars, articles, series, detailed, di>>
    /\ llm_data' = DataForLlm(definitions, metrics, series_performance,
                              time_analysis, tag_recommendations)
    /\ pc' = "projected"
    /\ UNCHANGED <<upstream, ret, detailed_articles, detail_requests, metrics,
                   series_performance, tag_recommendations, time_analysis, report,
                   appVars>>

(* ------------------------------ app.py -------------------------------- *)
(* a request: the endpoint, whether the JSON body is an object (the form   *)
(* of /analyze always is one), and the username field, which is missing    *)
(* (None), empty, or a name                                                *)
FormEndpoint == "/analyze"
ApiEndpoint == "/api/analyze"

Requests ==
    { q \in [endpoint : {FormEndpoint, ApiEndpoint}, is_object : BOOLEAN,
              given : BOOLEAN, username : {"", "u"}] :
        /\ q.endpoint = FormEndpoint => q.is_object
        /\ ~q.given => q.username = ""
        /\ ~q.is_object => ~q.given }

(* Python's truth value of request.form.get('username') / data.get(...)    *)
Truthy(q) == q.given /\ q.username # ""

NoResponse == [status |-> 0, error |-> ""]
UsernameRequired == [status |-> 400, error |-> "Username is required"]
Unhandled == [status |-> 500, error |-> "Internal Server Error"]

(* the request a handler accepted: DevToAnalyzer(username, api_key) follows *)
AcceptedRequest ==
    [endpoint |-> FormEndpoint, is_object |-> TRUE, given |-> TRUE, username |-> "u"]

(* POST /analyze up to the construction of the analyzer *)
Analyze ==
    /\ pc = "request"
    /\ request.endpoint = FormEndpoint
    /\ IF ~Truthy(request)
       THEN response' = UsernameRequired /\ pc' = "answered"
       ELSE pc' = "idle" /\ UNCHANGED response
    /\ UNCHANGED <<upstream, ret, articles, series, fetchVars, detailVars,
                   resultVars, request, definitions, llmVars>>

(* POST /api/analyze up to the construction of the analyzer: data.get is   *)
(* called on request.json before the try block                             *)
ApiAnalyze ==
    /\ pc = "request"
    /\ request.endpoint = ApiEndpoint
    /\ IF ~request.is_object
       THEN response' = Unhandled /\ pc' = "answered"
       ELSE IF ~Truthy(request)
       THEN response' = UsernameRequired /\ pc' = "answered"
       ELSE pc' = "idle" /\ UNCHANGED response
    /\ UNCHANGED <<upstream, ret, articles, series, fetchVars, detailVars,
                   resultVars, request, definitions, llmVars>>

(* ------------------------- what the platform holds -------------------- *)
ListPayloads ==
    { [series |-> s, published_at |-> p, public_reactions_count |-> r] :
        s \in SeriesIds \cup {NoSeries},
        p \in Timestamps \cup {Absent},
        r \in {1, Null} }

Catalogs(payloads) ==
    UNION { { [i \in 1..n |->
                 Article(i, f[i].series, f[i].published_at,
                         f[i].public_reactions_count, 0, Absent, 1)] :
              f \in [1..n -> payloads] } : n \in 0..MaxArticles }

NoMetrics == [status |-> "none"]
NotCalled == [status |-> "none"]

(* nothing downstream of the metrics has been computed *)
NothingAssembled ==
    /\ tag_recommendations = NotCalled
    /\ time_analysis = NotCalled
    /\ report = NotCalled
    /\ llm_data = NotCalled

(* the fields DevToAnalyzer.__init__ sets, and the locals of its methods *)
Constructed ==
    /\ ret = "fetched"
    /\ detailed_articles = <<>>
    /\ detailed = <<>>
    /\ di = 1
    /\ detail_requests = <<>>
    /\ metrics = NoMetrics
    /\ series_performance = <<>>
    /\ page = 1
    /\ has_more_articles = TRUE
    /\ all_articles = <<>>
    /\ articles = <<>>
    /\ series = <<>>
    /\ requests = <<>>
    /\ failed_page = 0
    /\ returned = <<>>
    /\ NothingAssembled

(* DevToAnalyzer.__init__, and a handler about to use the analyzer *)
Fresh ==
    /\ pc = "idle"
    /\ request = AcceptedRequest
    /\ response = NoResponse
    /\ given_tag = <<>>
    /\ normalized = <<>>
    /\ definitions = InClass
    /\ Constructed

Init ==
    /\ upstream \in Catalogs(ListPayloads)
    /\ max_pages \in 0..MaxPages
    /\ articles_per_page \in 1..MaxPerPage
    /\ Fresh

Next ==
    \/ FetchAllArticles
    \/ FetchPage
    \/ FetchReturn

Spec == Init /\ [][Next]_vars

(* calls of fetch_all_articles one after the other on one analyzer; a new  *)
(* call starts while at most MaxRefetch list requests have been issued     *)
NextRefetch ==
    \/ FetchAllArticles
    \/ FetchAllArticlesAgain
    \/ FetchPage
    \/ FetchReturn

SpecRefetch == Init /\ [][NextRefetch]_vars

(* one analysis run, as the request handlers of app.py make it *)
RunPayloads ==
    { x \in [series : {NoSeries, "S1"}, published_at : Timestamps,
              page_views_count : {Absent, 5}] :
        /\ x.series = NoSeries => x.published_at = 1 /\ x.page_views_count = 5
        /\ x.published_at = 2 => x.page_views_count = 5 }

RunCatalogs ==
    UNION { { [i \in 1..n |->
                 Article(i, f[i].series, f[i].published_at, i, i,
                         f[i].page_views_count, 1)] :
              f \in [1..n -> RunPayloads] } : n \in 0..MaxArticles }

InitRun ==
    /\ upstream \in RunCatalogs
    /\ max_pages = DefaultMaxPages
    /\ articles_per_page = DefaultPerPage
    /\ Fresh

NextRun ==
    \/ FetchAllArticles
    \/ FetchPage
    \/ FetchReturn
    \/ GetDetailedArticles
    \/ FetchArticleDetails
    \/ DetailsReturn
    \/ ComputeMetrics
    \/ AnalyzeSeriesPerformance

SpecRun == InitRun /\ [][NextRun]_vars

(* a handler's two calls on its analyzer: generate_analysis_report, then   *)
(* get_data_for_llm_analysis                                               *)
NextAnswer ==
    \/ FetchAllArticles
    \/ FetchPage
    \/ FetchReturn
    \/ GetDetailedArticles
    \/ FetchArticleDetails
    \/ DetailsReturn
    \/ ComputeMetrics
    \/ GenerateAnalysisReport
    \/ GetDataForLlmAnalysis

SpecAnswer == InitRun /\ [][NextAnswer]_vars

(* a request arriving at one of the two handlers, up to the first fetch *)
InitApp ==
    /\ upstream \in RunCatalogs
    /\ max_pages = DefaultMaxPages
    /\ articles_per_page = DefaultPerPage
    /\ pc = "request"
    /\ request \in Requests
    /\ response = NoResponse
    /\ given_tag = <<>>
    /\ normalized = <<>>
    /\ definitions = InClass
    /\ Constructed

NextApp ==
    \/ Analyze
    \/ ApiAnalyze
    \/ FetchAllArticles
    \/ FetchPage
    \/ FetchReturn

SpecApp == InitApp /\ [][NextApp]_vars

(* get_detailed_articles alone, on an analyzer that has fetched one page   *)
(* of articles without series; the view counts the platform gives stay     *)
(* below RandLo                                                            *)
DetailCatalogs ==
    UNION { { [i \in 1..n |->
                 Article(i, NoSeries, 1, f[i].public_reactions_count, 0,
                         f[i].page_views_count, 1)] :
              f \in [1..n -> [public_reactions_count : {1, 2},
                              page_views_count : {Absent, 5}]] } :
            n \in 1..MaxArticles }

InitDetails ==
    /\ upstream \in DetailCatalogs
    /\ max_pages = DefaultMaxPages
    /\ articles_per_page = DefaultPerPage
    /\ pc = "fetched"
    /\ ret = "fetched"
    /\ articles = upstream
    /\ all_articles = upstream
    /\ returned = upstream
    /\ series = <<>>
    /\ requests = <<1, 2>>
    /\ page = 2
    /\ has_more_articles = FALSE
    /\ failed_page = 0
    /\ detailed_articles = <<>>
    /\ detailed = <<>>
    /\ di = 1
    /\ detail_requests = <<>>
    /\ metrics = NoMetrics
    /\ series_performance = <<>>
    /\ NothingAssembled
    /\ request = AcceptedRequest
    /\ response = NoResponse
    /\ given_tag = <<>>
    /\ normalized = <<>>
    /\ definitions = InClass

NextDetails ==
    \/ GetDetailedArticles
    \/ FetchArticleDetails
    \/ DetailsReturn

SpecDetails == InitDetails /\ [][NextDetails]_vars

(* the metrics engine alone: calculate_metrics on an analyzer whose run    *)
(* has fetched the articles and their details                              *)
TagA == <<"a">>
TagB == <<"b">>
TagC == <<"c">>
TagD == <<"d">>
TagE == <<"e">>
TagF == <<"f">>

TagCells ==
    { TagList(<<>>), TagList(<<TagA>>), TagList(<<TagA, TagB>>),
      TagList(<<TagA, TagA>>), TagString(<<"a", ",", " ", "b">>),
      TagString(<<>>), NoTags, NullTags }

RankPayloads ==
    { [page_views_count |-> v, public_reactions_count |-> r, comments_count |-> c,
       reading_time_minutes |-> t, tags |-> TagList(<<TagA>>)] :
        v \in {0, 2}, r \in {Null, 1, 2}, c \in {1}, t \in {2} }
    \cup
    { [page_views_count |-> v, public_reactions_count |-> 1, comments_count |-> c,
       reading_time_minutes |-> t, tags |-> TagList(<<TagA>>)] :
        v \in {0}, c \in {Null, 1}, t \in {Null, 0} }

TagPayloads ==
    { x \in [page_views_count : {1, 2}, public_reactions_count : {1},
              comments_count : {1}, reading_time_minutes : {1}, tags : TagCells] :
        x.page_views_count = 2 => x.tags = TagList(<<TagA, TagB>>) }

RowsOf(payloads) ==
    UNION { { [i \in 1..n |->
                 [Article(i, NoSeries, 1, f[i].public_reactions_count,
                          f[i].comments_count, f[i].page_views_count,
                          f[i].reading_time_minutes)
                    EXCEPT !.tags = f[i].tags]] :
              f \in [1..n -> payloads] } : n \in 0..MaxArticles }

(* scenario B of the specification's testable properties *)
ScenarioB ==
    [i \in 1..3 |->
        [Article(i, NoSeries, 1, 10 * i, i, 100, 1)
           EXCEPT !.tags = TagList(<<Python>>)]]

(* three articles over six tags: each carries five of them, or the sixth   *)
(* alone, and has 3 views or none                                          *)
SixTagRows ==
    { [i \in 1..3 |->
         [Article(i, NoSeries, 1, 1, 0, v[i], 1) EXCEPT !.tags = TagList(t[i])]] :
      v \in [1..3 -> {0, 3}],
      t \in [1..3 -> {<<TagA, TagB, TagC, TagD, TagE>>, <<TagF>>}] }

(* the analyzer's fields after get_detailed_articles stored one of the row *)
(* lists                                                                   *)
DetailsFetched(rowLists) ==
    /\ detailed_articles \in rowLists
    /\ upstream = detailed_articles
    /\ articles = detailed_articles
    /\ all_articles = detailed_articles
    /\ returned = detailed_articles
    /\ detailed = detailed_articles
    /\ di = Len(detailed_articles) + 1
    /\ detail_requests =
          [i \in 1..Len(detailed_articles) |->
              [id |-> detailed_articles[i].id, ok |-> TRUE]]
    /\ max_pages = DefaultMaxPages
    /\ articles_per_page = DefaultPerPage
    /\ requests = <<1, 2>>
    /\ page = 2
    /\ has_more_articles = FALSE
    /\ failed_page = 0
    /\ series = <<>>
    /\ ret = "fetched"
    /\ request = AcceptedRequest
    /\ response = NoResponse
    /\ given_tag = <<>>
    /\ normalized = <<>>

(* an analyzer after get_detailed_articles, nothing computed yet *)
DetailsStored(rowLists) ==
    /\ DetailsFetched(rowLists)
    /\ pc = "compute"
    /\ metrics = NoMetrics
    /\ series_performance = <<>>
    /\ NothingAssembled
    /\ definitions = InClass

InitMetrics ==
    DetailsStored({ rows \in RowsOf(RankPayloads) \cup RowsOf(TagPayloads) \cup SixTagRows :
                      rows = <<>> \/ ViewCountExists(rows) } \cup {ScenarioB})

NextMetrics == ComputeMetrics

SpecMetrics == InitMetrics /\ [][NextMetrics]_vars

(* the four analyses on an analyzer that has fetched and stored the        *)
(* details of its articles, some of them in a series                       *)
AnalysisCatalogs ==
    UNION { { [i \in 1..n |->
                 [Article(i, f[i].series, f[i].published_at,
                          f[i].public_reactions_count, 0, 1, 1)
                    EXCEPT !.tags = f[i].tags]] :
              f \in [1..n -> [series : {NoSeries, "S1"},
                              published_at : {1, HoursPerDay + 2},
                              public_reactions_count : {1, 2},
                              tags : {TagList(<<TagA>>), TagList(<<TagA, TagB>>)}]] } :
            n \in 0..MaxArticles }

InitAnalyses ==
    /\ upstream \in AnalysisCatalogs
    /\ articles = ExtractSeriesInfo(upstream).arts
    /\ series = ExtractSeriesInfo(upstream).series
    /\ all_articles = upstream
    /\ returned = articles
    /\ detailed_articles = [i \in 1..Len(articles) |-> WithSeriesInfo(articles[i], series)]
    /\ detailed = detailed_articles
    /\ di = Len(articles) + 1
    /\ detail_requests = [i \in 1..Len(articles) |-> [id |-> articles[i].id, ok |-> TRUE]]
    /\ max_pages = DefaultMaxPages
    /\ articles_per_page = DefaultPerPage
    /\ requests = IF upstream = <<>> THEN <<1>> ELSE <<1, 2>>
    /\ page = Len(requests)
    /\ has_more_articles = FALSE
    /\ failed_page = 0
    /\ ret = "fetched"
    /\ pc = "compute"
    /\ metrics = NoMetrics
    /\ series_performance = <<>>
    /\ NothingAssembled
    /\ request = AcceptedRequest
    /\ response = NoResponse
    /\ given_tag = <<>>
    /\ normalized = <<>>
    /\ definitions = InClass

NextAnalyses ==
    \/ ComputeMetrics
    \/ AnalyzeSeriesPerformance
    \/ AnalyzeOptimalPostingTimes
    \/ GenerateTagRecommendations

SpecAnalyses == InitAnalyses /\ [][NextAnalyses]_vars

(* the tag recommendations alone, on the stored details of up to MaxTagged *)
(* articles                                                                *)
MaxTagged == 3


TaggedArticle(tags, v, r, c) ==
    [page_views_count |-> v, public_reactions_count |-> r, comments_count |-> c,
     reading_time_minutes |-> 1, tags |-> tags]

RecPayloads ==
    { TaggedArticle(TagList(<<TagA, TagB, TagC>>), 5, 1, 0),
      TaggedArticle(TagList(<<TagD>>), 1, 3, 0),
      TaggedArticle(TagList(<<TagA, TagB>>), 1, 3, 1),
      TaggedArticle(TagList(<<TagA>>), 1, 2, 0),
      TaggedArticle(TagList(<<TagB, TagA, TagD, TagC>>), 1, 1, 1),
      TaggedArticle(TagList(<<TagA, TagB>>), 2, 7, 1),
      TaggedArticle(TagList(<<TagA, TagA, TagB>>), 1, 1, 0),
      TaggedArticle(TagList(<<Python>>), 1, 1, 0),
      TaggedArticle(TagList(<<TagC>>), 1, 0, 0),
      TaggedArticle(TagList(<<>>), 1, 1, 0),
      TaggedArticle(TagString(<<"a", ",", " ", "b">>), 1, 1, 0),
      TaggedArticle(TagList(<<TagA>>), 1, Null, 0),
      TaggedArticle(NoTags, 1, 1, 0) }

TaggedRows ==
    UNION { { [i \in 1..n |->
                 [Article(i, NoSeries, 1, f[i].public_reactions_count,
                          f[i].comments_count, f[i].page_views_count,
                          f[i].reading_time_minutes)
                    EXCEPT !.tags = f[i].tags]] :
              f \in [1..n -> RecPayloads] } : n \in 0..MaxTagged }

InitTags == DetailsStored(TaggedRows)

NextTags == GenerateTagRecommendations

SpecTags == InitTags /\ [][NextTags]_vars

(* the posting time analysis alone, on the stored details of articles      *)
(* published in up to MaxBuckets hours of the week                         *)
MaxBuckets == 6

HoursPerWeek == HoursPerDay * DaysPerWeek

(* the hour of the k-th bucket: odd ones on Tuesday, even ones on Monday *)
BucketTime(k) == IF k % 2 = 1 THEN k + HoursPerDay ELSE k

(* the articles of bucket k: one, or two a week apart, the first with      *)
(* `level` reactions (or null) and the second with two more                *)
BucketArticles(k, b, firstId) ==
    <<Article(firstId, NoSeries, BucketTime(k),
              IF b.null THEN Null ELSE b.level, 0, 1, 1)>>
    \o (IF b.size = 2
        THEN <<Article(firstId + 1, NoSeries, BucketTime(k) + HoursPerWeek,
                       b.level + 2, 0, 1, 1)>>
        ELSE <<>>)

RECURSIVE TimedArticles(_, _, _)
TimedArticles(f, k, firstId) ==
    IF k > Len(f) THEN <<>>
    ELSE BucketArticles(k, f[k], firstId)
         \o TimedArticles(f, k + 1, firstId + f[k].size)

BucketChoices ==
    { f \in [1..MaxBuckets -> [size : {1, 2}, level : {1, 2}, null : BOOLEAN]] :
         \A k \in 1..MaxBuckets :
            /\ f[k].null => k = 1 /\ f[k].level = 1
            /\ f[k].size = 1 => f[k].level = 1 }

Undated ==
    <<[Article(1, NoSeries, Absent, 1, 0, 1, 1) EXCEPT !.published_at = Absent]>>

(* dated articles, one to a bucket, followed by one without a timestamp:   *)
(* the key is not in its payload, or holds null                            *)
PartlyDated ==
    { TimedArticles(f, 1, 1)
        \o <<[Article(MaxBuckets + 1, NoSeries, Absent, 1, 0, 1, 1)
                EXCEPT !.published_at = missing]>> :
      f \in { g \in BucketChoices : \A k \in 1..MaxBuckets : g[k].size = 1 },
      missing \in {Absent, Null} }

TimedRows ==
    { TimedArticles(f, 1, 1) : f \in BucketChoices } \cup {<<>>, Undated} \cup PartlyDated

InitTimes == DetailsStored(TimedRows)

NextTimes == AnalyzeOptimalPostingTimes

SpecTimes == InitTimes /\ [][NextTimes]_vars

(* the report and its projection alone, assembled from results of up to    *)
(* MaxRanked articles, MaxTagStats tags and MaxSlots series, hours and     *)
(* day-hour buckets                                                        *)
MaxRanked == 11
MaxTagStats == 16
MaxSlots == 6

(* a ranking of n articles: the articles in an order of its own *)
RankingFrom(n, first) ==
    [p \in 1..n |->
        LET i == ((p + first) % n) + 1 IN
        [index |-> i, id |-> i, title |-> i, page_views_count |-> i,
         public_reactions_count |-> 1, comments_count |-> 0,
         reading_time_minutes |-> 1, engagement_ratio |-> Q(1, i),
         time_efficiency |-> Q(1, 1)]]

(* t TagStats as _analyze_tag_performance leaves them: by views, descending *)
TagStatsOf(t) ==
    [k \in 1..t |->
        WithAverages([tag |-> k, count |-> k, views |-> (t - k) \div 2,
                      reactions |-> k, comments |-> 0])]

(* h slots with average views in no particular order *)
SlotsOf(h) ==
    [k \in 1..h |-> [hour |-> k, article_count |-> 1, avg_views |-> Q((k * 3) % 7, 1)]]

MetricsOf(n, t, h) ==
    [status |-> "ok",
     most_viewed |-> RankingFrom(n, 0),
     most_reactions |-> RankingFrom(n, 1),
     most_commented |-> RankingFrom(n, 2),
     highest_engagement |-> RankingFrom(n, 3),
     best_time_efficiency |-> RankingFrom(n, 4),
     tag_performance |-> TagStatsOf(t),
     time_performance |-> [by_day |-> SlotsOf(Min(h, DaysPerWeek)), by_hour |-> SlotsOf(h)],
     overall_stats |-> [total_articles |-> n]]

SeriesOf(s) ==
    [k \in 1..s |-> [title |-> k, article_count |-> 1, total_reactions |-> s - k,
                      avg_reactions |-> Q(s - k, 1), completion_rate |-> Q(1, 1)]]

TimeAnalysisOf(c) ==
    [status |-> "ok", by_day |-> <<>>, by_hour |-> <<>>,
     by_day_hour |-> [k \in 1..c |-> [day |-> "Monday", hour |-> k]],
     best_combinations |->
        [k \in 1..Min(c, BestSlotCount) |-> [day |-> "Monday", hour |-> k]]]

InitReport ==
    /\ \E n \in 0..MaxRanked, t \in 0..MaxTagStats, m \in 0..MaxSlots :
          /\ DetailsFetched({[i \in 1..n |-> Article(i, NoSeries, 1, 1, 0, 1, 1)]})
          /\ metrics = MetricsOf(n, t, m)
          /\ series_performance = SeriesOf(m)
          /\ time_analysis = TimeAnalysisOf(m)
    /\ tag_recommendations = [status |-> "ok", groups |-> <<>>]
    /\ definitions \in {InClass, AheadOfClass}
    /\ report = NotCalled
    /\ llm_data = NotCalled
    /\ pc = "assemble"

NextReport ==
    \/ GenerateAnalysisReport
    \/ GetDataForLlmAnalysis

SpecReport == InitReport /\ [][NextReport]_vars

(* ---------------------- LLMService._normalize_tag --------------------- *)
(* a tag is the sequence of its characters                                 *)
LowerLetters ==
    <<"a", "b", "c", "d", "e", "f", "g", "h", "i", "j", "k", "l", "m", "n", "o", "p", "q", "r", "s", "t", "u", "v", "w", "x", "y", "z">>
UpperLetters ==
    <<"A", "B", "C", "D", "E", "F", "G", "H", "I", "J", "K", "L", "M", "N", "O", "P", "Q", "R", "S", "T", "U", "V", "W", "X", "Y", "Z">>

(* str.lower and str.upper on one character: only letters have a case *)
LowerChar(c) ==
    IF \E i \in 1..Len(UpperLetters) : UpperLetters[i] = c
    THEN LowerLetters[CHOOSE i \in 1..Len(UpperLetters) : UpperLetters[i] = c]
    ELSE c
UpperChar(c) ==
    IF \E i \in 1..Len(LowerLetters) : LowerLetters[i] = c
    THEN UpperLetters[CHOOSE i \in 1..Len(LowerLetters) : LowerLetters[i] = c]
    ELSE c

(* tag.lower() *)
StrLower(t) == [i \in 1..Len(t) |-> LowerChar(t[i])]

(* word.capitalize(): the first character in upper case, the rest in lower *)
Capitalize(word) ==
    [i \in 1..Len(word) |-> IF i = 1 THEN UpperChar(word[i]) ELSE LowerChar(word[i])]

Hyphen == "-"

(* tag.split('-'): the words between the hyphens, the empty ones included *)
RECURSIVE Split(_)
Split(t) ==
    IF \A i \in 1..Len(t) : t[i] # Hyphen
    THEN <<t>>
    ELSE LET h == CHOOSE i \in 1..Len(t) :
                     /\ t[i] = Hyphen
                     /\ \A j \in 1..(i - 1) : t[j] # Hyphen
         IN <<SubSeq(t, 1, h - 1)>> \o Split(SubSeq(t, h + 1, Len(t)))

(* '-'.join(words) *)
RECURSIVE Join(_)
Join(words) ==
    IF Len(words) = 1
    THEN words[1]
    ELSE words[1] \o <<Hyphen>> \o Join(Tail(words))

(* special_cases: the lower-case name and its display form *)
special_cases == <<
    <<<<"j", "a", "v", "a", "s", "c", "r", "i", "p", "t">>,
      <<"J", "a", "v", "a", "S", "c", "r", "i", "p", "t">>>>,
    <<<<"t", "y", "p", "e", "s", "c", "r", "i", "p", "t">>,
      <<"T", "y", "p", "e", "S", "c", "r", "i", "p", "t">>>>,
    <<<<"n", "o", "d", "e", "j", "s">>,
      <<"N", "o", "d", "e", ".", "j", "s">>>>,
    <<<<"n", "e", "x", "t", "j", "s">>,
      <<"N", "e", "x", "t", ".", "j", "s">>>>,
    <<<<"r", "e", "a", "c", "t", "j", "s">>,
      <<"R", "e", "a", "c", "t", ".", "j", "s">>>>,
    <<<<"v", "u", "e", "j", "s">>,
      <<"V", "u", "e", ".", "j", "s">>>>,
    <<<<"a", "w", "s">>,
      <<"A", "W", "S">>>>,
    <<<<"d", "o", "t", "n", "e", "t">>,
      <<".", "N", "E", "T">>>>,
    <<<<"c", "s", "h", "a", "r", "p">>,
      <<"C", "#">>>>,
    <<<<"c", "p", "p">>,
      <<"C", "+", "+">>>>,
    <<<<"d", "e", "v", "o", "p", "s">>,
      <<"D", "e", "v", "O", "p", "s">>>>,
    <<<<"a", "i">>,
      <<"A", "I">>>>,
    <<<<"m", "l">>,
      <<"M", "L">>>>,
    <<<<"a", "p", "i">>,
      <<"A", "P", "I">>>>,
    <<<<"g", "r", "a", "p", "h", "q", "l">>,
      <<"G", "r", "a", "p", "h", "Q", "L">>>>,
    <<<<"p", "o", "s", "t", "g", "r", "e", "s", "q", "l">>,
      <<"P", "o", "s", "t", "g", "r", "e", "S", "Q", "L">>>>,
    <<<<"m", "y", "s", "q", "l">>,
      <<"M", "y", "S", "Q", "L">>>>,
    <<<<"n", "o", "s", "q", "l">>,
      <<"N", "o", "S", "Q", "L">>>>,
    <<<<"m", "o", "n", "g", "o", "d", "b">>,
      <<"M", "o", "n", "g", "o", "D", "B">>>>,
    <<<<"p", "h", "p">>,
      <<"P", "H", "P">>>>,
    <<<<"c", "s", "s">>,
      <<"C", "S", "S">>>>,
    <<<<"h", "t", "m", "l">>,
      <<"H", "T", "M", "L">>>>,
    <<<<"s", "a", "s", "s">>,
      <<"S", "a", "s", "s">>>>,
    <<<<"s", "c", "s", "s">>,
      <<"S", "C", "S", "S">>>>,
    <<<<"i", "o", "s">>,
      <<"i", "O", "S">>>>,
    <<<<"m", "a", "c", "o", "s">>,
      <<"m", "a", "c", "O", "S">>>>,
    <<<<"l", "i", "n", "u", "x">>,
      <<"L", "i", "n", "u", "x">>>>,
    <<<<"w", "i", "n", "d", "o", "w", "s">>,
      <<"W", "i", "n", "d", "o", "w", "s">>>>,
    <<<<"c", "i">>,
      <<"C", "I">>>>,
    <<<<"c", "d">>,
      <<"C", "D">>>>,
    <<<<"c", "i", "c", "d">>,
      <<"C", "I", "/", "C", "D">>>>,
    <<<<"i", "o", "t">>,
      <<"I", "o", "T">>>>,
    <<<<"u", "i">>,
      <<"U", "I">>>>,
    <<<<"u", "x">>,
      <<"U", "X">>>>,
    <<<<"j", "w", "t">>,
      <<"J", "W", "T">>>>,
    <<<<"o", "a", "u", "t", "h">>,
      <<"O", "A", "u", "t", "h">>>>,
    <<<<"r", "e", "g", "e", "x">>,
      <<"R", "e", "g", "E", "x">>>>,
    <<<<"w", "e", "b", "d", "e", "v">>,
      <<"W", "e", "b", "D", "e", "v">>>>,
    <<<<"s", "e", "o">>,
      <<"S", "E", "O">>>> >>

(* _normalize_tag(tag) *)
NormalizeTag(t) ==
    LET tag_lower == StrLower(t)
        known == { k \in 1..Len(special_cases) : special_cases[k][1] = tag_lower }
    IN IF known # {}
       THEN special_cases[CHOOSE k \in known : TRUE][2]
       ELSE IF \E i \in 1..Len(t) : t[i] = Hyphen
       THEN LET words == Split(t)
            IN Join([w \in 1..Len(words) |-> Capitalize(words[w])])
       ELSE Capitalize(t)

(* a caller passes a tag to _normalize_tag *)
Normalize ==
    /\ pc = "tag_given"
    /\ normalized' = NormalizeTag(given_tag)
    /\ pc' = "normalized"
    /\ UNCHANGED <<upstream, ret, articles, series, fetchVars, detailVars,
                   resultVars, request, response, definitions, given_tag>>

(* a caller passes the tag it got from _normalize_tag to _normalize_tag *)
NormalizeAgain ==
    /\ pc = "normalized"
    /\ given_tag' = normalized
    /\ normalized' = NormalizeTag(normalized)
    /\ pc' = "normalized_again"
    /\ UNCHANGED <<upstream, ret, articles, series, fetchVars, detailVars,
                   resultVars, request, response, definitions>>

(* the tags given: the names of special_cases, their display forms, and    *)
(* the short tags over a letter in both cases, a hyphen and a dot          *)
MaxTagLen == 3
TagLetters == {"a", "A", Hyphen, "."}
RECURSIVE TagsOfLength(_)
TagsOfLength(n) ==
    IF n = 0
    THEN {<<>>}
    ELSE { Append(t, c) : t \in TagsOfLength(n - 1), c \in TagLetters }
GivenTags ==
    UNION { TagsOfLength(n) : n \in 0..MaxTagLen }
        \cup { special_cases[k][1] : k \in 1..Len(special_cases) }
        \cup { special_cases[k][2] : k \in 1..Len(special_cases) }

InitNormalize ==
    /\ upstream = <<>>
    /\ max_pages = 1
    /\ articles_per_page = 1
    /\ Constructed
    /\ request = AcceptedRequest
    /\ response = NoResponse
    /\ definitions = InClass
    /\ given_tag \in GivenTags
    /\ normalized = <<>>
    /\ pc = "tag_given"

NextNormalize ==
    \/ Normalize
    \/ NormalizeAgain

SpecNormalize == InitNormalize /\ [][NextNormalize]_vars

(* ------------------------------ claims -------------------------------- *)
RECURSIVE SumSet(_, _)
SumSet(S, f) ==
    IF S = {} THEN 0
    ELSE LET x == CHOOSE x \in S : TRUE IN f[x] + SumSet(S \ {x}, f)

Computed == pc \in {"metrics_done", "done"} /\ metrics.status = "ok"

RankingOf(column) ==
    CASE column = "page_views_count" -> metrics.most_viewed
      [] column = "public_reactions_count" -> metrics.most_reactions
      [] column = "comments_count" -> metrics.most_commented
      [] column = "engagement_ratio" -> metrics.highest_engagement
      [] column = "time_efficiency" -> metrics.best_time_efficiency

(* C1: each of the five rankings is a permutation of the detailed          *)
(* articles, sorted non-increasingly by its metric, and two articles with  *)
(* the same metric value come in their fetch order.                        *)
C1_RankingsSortedStable ==
    Computed =>
        \A column \in MetricColumns :
            LET rk == RankingOf(column) IN
            /\ Len(rk) = Len(detailed_articles)
            /\ \A i \in 1..Len(detailed_articles) :
                  \E p \in 1..Len(rk) : rk[p].index = i /\ rk[p].id = detailed_articles[i].id
            /\ \A p, q \in 1..Len(rk) :
                  p < q =>
                    /\ ~QGreater(ColumnValue(rk[q], column), ColumnValue(rk[p], column))
                    /\ QEq(ColumnValue(rk[p], column), ColumnValue(rk[q], column))
                          => rk[p].index < rk[q].index

(* the tags an article carries *)
Carried(r) ==
    CASE r.tags.kind = "list" ->
            { r.tags.list[j] : j \in 1..Len(r.tags.list) } \ {<<>>}
      [] r.tags.kind = "str" ->
            LET pieces == SplitComma(r.tags.str) IN
            { Strip(pieces[j]) : j \in 1..Len(pieces) } \ {<<>>}
      [] OTHER -> {}

(* articles_df of the run *)
TheFrame == Frame(detailed_articles)
ViewsAt ==
    [i \in 1..Len(detailed_articles) |-> FillNa0(detailed_articles[i].page_views_count)]
ReactionsAt ==
    [i \in 1..Len(detailed_articles) |->
        FillNa0(detailed_articles[i].public_reactions_count)]
CommentsAt ==
    [i \in 1..Len(detailed_articles) |-> FillNa0(detailed_articles[i].comments_count)]

StatTags == { metrics.tag_performance[k].tag : k \in 1..Len(metrics.tag_performance) }

AveragesRight(st) ==
    /\ QEq(st.avg_views, Q(st.views, st.count))
    /\ QEq(st.avg_reactions, Q(st.reactions, st.count))
    /\ QEq(st.avg_comments, Q(st.comments, st.count))
    /\ QEq(st.engagement, Q(st.reactions + st.comments, Max(st.views, 1)))

EntriesOf(i) ==
    IF TagField(detailed_articles) = "none" THEN <<>>
    ELSE SelectSeq(RowTags(detailed_articles[i], TagField(detailed_articles)),
                   LAMBDA t : t # <<>>)

Occurrences(tag) ==
    { <<i, j>> \in (1..Len(detailed_articles)) \X (1..6) :
         j <= Len(EntriesOf(i)) /\ EntriesOf(i)[j] = tag }

AtOccurrence(f) == [o \in (1..Len(detailed_articles)) \X (1..6) |-> f[o[1]]]

SumOfCounts ==
    SumSet(1..Len(metrics.tag_performance),
           [k \in 1..Len(metrics.tag_performance) |-> metrics.tag_performance[k].count])

(* C3, as claimed: the sum of TagStat.count over all tags is >= the number *)
(* of articles, with equality only when every article has exactly one tag. *)
C3_CountSumAtLeastArticles ==
    Computed =>
        /\ SumOfCounts >= Len(detailed_articles)
        /\ SumOfCounts = Len(detailed_articles) =>
              \A i \in 1..Len(detailed_articles) : Len(EntriesOf(i)) = 1

Tagged == { i \in 1..Len(detailed_articles) : Len(EntriesOf(i)) >= 1 }

(* C3, amended: the sum of TagStat.count over all tags is the number of    *)
(* tag entries read from the articles, so it is >= the number of articles  *)
(* that have a tag entry, with equality exactly when each of those has     *)
(* one entry; an article without tags adds nothing.                        *)
C3_CountSumIsEntries ==
    Computed =>
        /\ SumOfCounts = SumSet(1..Len(detailed_articles),
                                [i \in 1..Len(detailed_articles) |-> Len(EntriesOf(i))])
        /\ SumOfCounts >= Cardinality(Tagged)
        /\ SumOfCounts = Cardinality(Tagged) <=>
              \A i \in Tagged : Len(EntriesOf(i)) = 1

C3_Witness ==
    /\ Computed
    /\ \E i, j \in 1..Len(detailed_articles) :
          Len(EntriesOf(i)) = 0 /\ Len(EntriesOf(j)) = 2
    /\ SumOfCounts = 2

Ended == pc \in {"fetched", "raised"}

Raw(a) == [a EXCEPT !.series_part = Absent]
RawSeq(s) == [i \in 1..Len(s) |-> Raw(s[i])]

(* members of series k as they are stored *)
Members(k) == series[k].articles

MemberCount(a) ==
    Cardinality({ <<k, j>> \in (1..Len(series)) \X (1..MaxArticles + 1) :
                     j <= Len(Members(k)) /\ Members(k)[j].id = a.id })

(* C5: after _extract_series_info the members of every series are in       *)
(* ascending published_at order, the articles without a timestamp after    *)
(* all those with one, fetch order kept among equal or missing timestamps, *)
(* and the member at position i (0-based) has series_part i + 1.           *)
MissingLastKey(a) == IF Present(a.published_at) THEN a.published_at ELSE 1000

C5_SeriesOrderMissingLast ==
    pc = "fetched" =>
        \A k \in 1..Len(series) :
            /\ \A j \in 1..Len(Members(k)) : Members(k)[j].series_part = j
            /\ \A i, j \in 1..Len(Members(k)) :
                  i < j =>
                    \/ MissingLastKey(Members(k)[i]) < MissingLastKey(Members(k)[j])
                    \/ /\ MissingLastKey(Members(k)[i]) = MissingLastKey(Members(k)[j])
                       /\ Members(k)[i].id < Members(k)[j].id

(* C6: after _extract_series_info an article without a series identifier   *)
(* is a member of no series, an article with one is a member of exactly    *)
(* one series, the one keyed by its identifier, and no series is empty.    *)
C6_SeriesMembership ==
    pc = "fetched" =>
        /\ \A i \in 1..Len(articles) :
              LET a == articles[i] IN
              IF a.series = NoSeries
              THEN MemberCount(a) = 0
              ELSE /\ MemberCount(a) = 1
                   /\ \E k \in 1..Len(series) :
                         /\ series[k].id = a.series
                         /\ \E j \in 1..Len(Members(k)) : Members(k)[j].id = a.id
        /\ \A k \in 1..Len(series) : Len(Members(k)) >= 1
        /\ \A k, l \in 1..Len(series) : series[k].id = series[l].id => k = l

C6_Witness ==
    /\ pc = "fetched"
    /\ Len(series) >= 1
    /\ \E i \in 1..Len(articles) : articles[i].series = NoSeries

(* the pages a call that stopped after `n` requests has received whole *)
NonEmptyPagesBefore(n) ==
    SubSeq(upstream, 1, Min((n - 1) * articles_per_page, Len(upstream)))

(* C7: fetch_all_articles ends after at most max_pages list requests, for  *)
(* pages 1, 2, 3, ... in order, stops at the first empty page, and returns *)
(* the concatenation, in page order, of the non-empty pages it received.   *)
C7_PaginationReturnsConcatenation ==
    Ended =>
        /\ Len(requests) <= max_pages
        /\ \A i \in 1..Len(requests) : requests[i] = i
        /\ \A i \in 1..Len(requests) :
              (i < Len(requests)) => PageOf(upstream, i, articles_per_page) # <<>>
        /\ pc = "fetched"
        /\ RawSeq(returned) =
              IF failed_page = 0 /\ Len(requests) > 0
                 /\ PageOf(upstream, Len(requests), articles_per_page) # <<>>
              THEN NonEmptyPagesBefore(Len(requests) + 1)
              ELSE NonEmptyPagesBefore(Len(requests))

(* C8: when the list request for page k fails, fetch_all_articles returns  *)
(* and stores exactly the articles of pages 1..k-1 and raises nothing,     *)
(* whatever those pages hold.                                              *)
C8_FailedPageKeepsPartial ==
    (Ended /\ failed_page > 0) =>
        /\ pc = "fetched"
        /\ RawSeq(returned) = NonEmptyPagesBefore(failed_page)
        /\ RawSeq(articles) = NonEmptyPagesBefore(failed_page)

(* the view count the analysis uses for the article with this id *)
HasDetails(id) == \E i \in 1..Len(TheFrame) : TheFrame[i].id = id
AnalysisViews(id) ==
    TheFrame[CHOOSE i \in 1..Len(TheFrame) : TheFrame[i].id = id].page_views_count

(* C4: completion_rate of a series is 0 when it has one article or its     *)
(* first article has 0 views, and views(last) / views(first) otherwise,    *)
(* the views being those the rest of the analysis uses for the articles.   *)
C4_CompletionRateOfAnalysisViews ==
    pc = "done" =>
        \A k \in 1..Len(series_performance) :
            LET e == series_performance[k]
                first == e.articles[1].id
                last == e.articles[Len(e.articles)].id
            IN (HasDetails(first) /\ HasDetails(last)) =>
                 IF e.article_count = 1 \/ AnalysisViews(first) = 0
                 THEN QEq(e.completion_rate, Q(0, 1))
                 ELSE QEq(e.completion_rate,
                          Q(AnalysisViews(last), AnalysisViews(first)))

DetailsDone == pc \in {"compute", "metrics_done", "done"}

Succeeded == { i \in 1..Len(articles) :
                 i <= Len(detail_requests) /\ detail_requests[i].ok }

(* the i-th smallest element of a set of numbers *)
NthOf(S, n) == CHOOSE x \in S : Cardinality({ y \in S : y < x }) = n - 1

(* C9: every fetched article gets its detail request, whether or not an    *)
(* earlier one failed, and the detailed set holds, in fetch order, one     *)
(* record for each article whose request succeeded and none for the rest.  *)
C9_FailedDetailDropsOnlyThatArticle ==
    DetailsDone =>
        /\ Len(detail_requests) = Len(articles)
        /\ \A i \in 1..Len(articles) : detail_requests[i].id = articles[i].id
        /\ Len(detailed_articles) = Cardinality(Succeeded)
        /\ \A n \in 1..Len(detailed_articles) :
              detailed_articles[n].id = articles[NthOf(Succeeded, n)].id

C9_Witness ==
    /\ DetailsDone
    /\ Len(detail_requests) >= 2
    /\ ~detail_requests[1].ok
    /\ detail_requests[2].ok
    /\ Len(detailed_articles) = 1

Averages ==
    {metrics.overall_stats.avg_views_per_article,
     metrics.overall_stats.avg_reactions_per_article,
     metrics.overall_stats.avg_comments_per_article,
     metrics.overall_stats.avg_reading_time}

(* C10: with no article fetched the analysis completes, total_articles is  *)
(* 0, every average is 0 and not NaN, most_used_tags is empty and so is    *)
(* every other aggregate.                                                  *)
C10_EmptyAnalysisIsZero ==
    (pc \in {"metrics_done", "done", "raised"} /\ articles = <<>>) =>
        /\ pc # "raised"
        /\ metrics.status = "ok"
        /\ metrics.overall_stats.total_articles = 0
        /\ \A q \in Averages : ~IsNaN(q) /\ QEq(q, Q(0, 1))
        /\ metrics.overall_stats.most_used_tags = <<>>
        /\ \A column \in MetricColumns : RankingOf(column) = <<>>
        /\ metrics.tag_performance = <<>>
        /\ pc = "done" => series_performance = <<>>

(* C11: a request to /analyze or /api/analyze whose username is absent or  *)
(* empty is answered 400 'Username is required', and no analyzer is        *)
(* created and no upstream request is issued for it                        *)
AnalyzerCreated == pc \notin {"request", "answered"}

C11_NoUsernameIsRejected ==
    ~Truthy(request) =>
        /\ ~AnalyzerCreated
        /\ requests = <<>> /\ detail_requests = <<>>
        /\ pc = "answered" => response = UsernameRequired

(* ---- the tag recommendations, once generate_tag_recommendations has --- *)
(* ---- returned ---------------------------------------------------------- *)
Recommended == pc = "recommended"

Groups == tag_recommendations.groups

HasGroup(type) == \E k \in 1..Len(Groups) : Groups[k].type = type

TheGroup(type) == Groups[CHOOSE k \in 1..Len(Groups) : Groups[k].type = type]

(* the TagStats of the analysed articles, by tag *)
TagStats == AnalyzeTagPerformance(RawFrame(detailed_articles))

StatByTag ==
    LET stats == TagStats IN
    [t \in { stats[k].tag : k \in 1..Len(stats) } |->
        stats[CHOOSE k \in 1..Len(stats) : stats[k].tag = t]]

ListedTags(type) == { TheGroup(type).tags[k] : k \in 1..Len(TheGroup(type).tags) }

(* a tag's reactions and comments per article *)
PerArticle(st) == QAdd(st.avg_reactions, st.avg_comments)

UnderusedSet(stat) ==
    { t \in DOMAIN stat : stat[t].count <= 2 /\ stat[t].reactions + stat[t].comments > 0 }

Total(st) == st.reactions + st.comments

UnderusedListing(stat) ==
    LET underused == UnderusedSet(stat)
        emitted == HasGroup("underused")
    IN /\ emitted <=> underused # {}
       /\ emitted =>
             /\ Len(TheGroup("underused").tags) = Min(3, Cardinality(underused))
             /\ Cardinality(ListedTags("underused")) = Len(TheGroup("underused").tags)
             /\ ListedTags("underused") \subseteq underused

TagsOfArticle(i) ==
    { RecTags(detailed_articles[i])[j] : j \in 1..Len(RecTags(detailed_articles[i])) }

ArticlesWith(a, b) ==
    { i \in 1..Len(detailed_articles) : a \in TagsOfArticle(i) /\ b \in TagsOfArticle(i) }

AllTags == UNION { TagsOfArticle(i) : i \in 1..Len(detailed_articles) }

QualifyingPairs ==
    { pair \in AllTags \X AllTags :
         /\ TextLess(pair[1], pair[2])
         /\ Cardinality(ArticlesWith(pair[1], pair[2])) >= 2 }

RECURSIVE EngagementOver(_)
EngagementOver(is) ==
    IF is = {} THEN 0
    ELSE LET i == CHOOSE i \in is : TRUE IN
         detailed_articles[i].public_reactions_count
         + detailed_articles[i].comments_count + EngagementOver(is \ {i})

MeanEngagement(pair) ==
    Q(EngagementOver(ArticlesWith(pair[1], pair[2])),
      Cardinality(ArticlesWith(pair[1], pair[2])))

(* C14: the 'combinations' group holds only unordered pairs of two tags    *)
(* carried together by at least 2 distinct articles, each with the number  *)
(* of these articles as count and the mean of their reactions + comments   *)
(* as avg_engagement; it lists the top 3 by avg_engagement, descending,    *)
(* and is emitted only if there is such a pair                             *)
C14_CombinationsOfDistinctArticles ==
    Recommended /\ HasGroup("combinations") =>
        LET listed == TheGroup("combinations").combinations
            qualifying == QualifyingPairs
            pairs == { listed[k].tags : k \in 1..Len(listed) }
        IN /\ qualifying # {}
           /\ Len(listed) = Min(3, Cardinality(qualifying))
           /\ Cardinality(pairs) = Len(listed)
           /\ \A k \in 1..Len(listed) :
                 /\ listed[k].tags \in qualifying
                 /\ listed[k].count =
                       Cardinality(ArticlesWith(listed[k].tags[1], listed[k].tags[2]))
                 /\ QEq(listed[k].avg_engagement, MeanEngagement(listed[k].tags))
           /\ \A k \in 1..(Len(listed) - 1) :
                 ~QGreater(listed[k + 1].avg_engagement, listed[k].avg_engagement)
           /\ \A k \in 1..Len(listed) : \A pair \in qualifying \ pairs :
                 ~QGreater(MeanEngagement(pair), listed[k].avg_engagement)

GroupTypes == {"top_performing", "underused", "combinations", "trending"}

(* what a group lists: its combinations, or its tags *)
Listing(group) ==
    IF group.type = "combinations" THEN group.combinations ELSE group.tags

TrendingSet == { Lower(TrendingTags[t]) : t \in 1..Len(TrendingTags) }

(* C15: every group generate_tag_recommendations returns lists at least    *)
(* one tag or combination; a group whose precondition fails (fewer than 3  *)
(* tags, no underused tag, no article with two tags, no trending tag) is   *)
(* left out; with no articles the result is the empty list                 *)
C15_NoEmptyGroup ==
    Recommended =>
        LET stat == StatByTag IN
        /\ \A k \in 1..Len(Groups) :
              /\ Groups[k].type \in GroupTypes
              /\ Listing(Groups[k]) # <<>>
              /\ \A h \in 1..Len(Groups) : Groups[h].type = Groups[k].type => h = k
        /\ Cardinality(DOMAIN stat) < 3 => ~HasGroup("top_performing")
        /\ UnderusedSet(stat) = {} => ~HasGroup("underused")
        /\ (\A i \in 1..Len(detailed_articles) : Len(RecTags(detailed_articles[i])) < 2)
              => ~HasGroup("combinations")
        /\ (\A t \in DOMAIN stat : Lower(t) \notin TrendingSet) => ~HasGroup("trending")
        /\ detailed_articles = <<>> => Groups = <<>>

C15_Witness ==
    /\ Recommended
    /\ HasGroup("trending")
    /\ ~HasGroup("top_performing")
    /\ ~HasGroup("underused")
    /\ ~HasGroup("combinations")
    /\ Len(detailed_articles) >= 2

(* ---- the posting times, once analyze_optimal_posting_times returned --- *)
Timed == pc = "times_done"

(* the articles published in a bucket *)
ArticlesIn(day, hour) ==
    { i \in 1..Len(detailed_articles) :
         /\ Present(detailed_articles[i].published_at)
         /\ DayOfWeek(detailed_articles[i].published_at) = day
         /\ HourOfDay(detailed_articles[i].published_at) = hour }

(* C18: best_combinations holds only (day, hour) buckets with at least 2   *)
(* articles, at most 5 of them, in descending order of avg_engagement, and *)
(* no bucket with at least 2 articles that it leaves out has a strictly    *)
(* higher avg_engagement than one it holds                                 *)
C18_BestCombinations ==
    Timed =>
        LET best == time_analysis.best_combinations
            all == time_analysis.by_day_hour
            Held(slot) == \E k \in 1..Len(best) :
                             best[k].day = slot.day /\ best[k].hour = slot.hour
        IN /\ Len(best) <= 5
           /\ \A k \in 1..Len(best) :
                 /\ Cardinality(ArticlesIn(best[k].day, best[k].hour)) >= 2
                 /\ \A h \in 1..Len(best) :
                       best[h].day = best[k].day /\ best[h].hour = best[k].hour => h = k
           /\ \A k \in 1..(Len(best) - 1) :
                 ~QGreater(best[k + 1].stats.avg_engagement, best[k].stats.avg_engagement)
           /\ \A j \in 1..Len(all) :
                 Cardinality(ArticlesIn(all[j].day, all[j].hour)) >= 2 /\ ~Held(all[j])
                 => \A k \in 1..Len(best) :
                       ~QGreater(all[j].stats.avg_engagement, best[k].stats.avg_engagement)

C18_Witness ==
    /\ Timed
    /\ Len(time_analysis.best_combinations) = 5
    /\ \E j \in 1..Len(time_analysis.by_day_hour) :
          /\ time_analysis.by_day_hour[j].stats.article_count >= 2
          /\ \A k \in 1..5 :
                \/ time_analysis.best_combinations[k].day # time_analysis.by_day_hour[j].day
                \/ time_analysis.best_combinations[k].hour # time_analysis.by_day_hour[j].hour
          /\ QGreater(time_analysis.best_combinations[1].stats.avg_engagement,
                      time_analysis.by_day_hour[j].stats.avg_engagement)

(* ---- the report, once generate_analysis_report has returned ----------- *)
Reported == pc \in {"reported", "projected"}

LeadingOf(list, full, n) ==
    /\ Len(list) = Min(n, Len(full))
    /\ \A k \in 1..Len(list) : list[k] = full[k]

(* C16: the report holds the overall stats, the first min(10, n) entries   *)
(* of each of the five rankings, the min(15, t) TagStats with the most     *)
(* views in descending order, the time performance, the series performance *)
(* and the tag recommendations                                             *)
C16_ReportContents ==
    Reported =>
        /\ report.overall_stats = metrics.overall_stats
        /\ LeadingOf(report.top_posts.by_views, metrics.most_viewed, 10)
        /\ LeadingOf(report.top_posts.by_reactions, metrics.most_reactions, 10)
        /\ LeadingOf(report.top_posts.by_comments, metrics.most_commented, 10)
        /\ LeadingOf(report.top_posts.by_engagement, metrics.highest_engagement, 10)
        /\ LeadingOf(report.top_posts.by_time_efficiency,
                     metrics.best_time_efficiency, 10)
        /\ LeadingOf(report.tag_performance, metrics.tag_performance, 15)
        /\ \A k \in 1..(Len(report.tag_performance) - 1) :
              report.tag_performance[k].views >= report.tag_performance[k + 1].views
        /\ \A k \in 1..Len(report.tag_performance) :
           \A j \in (Len(report.tag_performance) + 1)..Len(metrics.tag_performance) :
              report.tag_performance[k].views >= metrics.tag_performance[j].views
        /\ report.best_publishing_times.by_day = metrics.time_performance.by_day
        /\ report.best_publishing_times.by_hour = metrics.time_performance.by_hour
        /\ "series_analysis" \in DOMAIN report
        /\ "tag_recommendations" \in DOMAIN report
        /\ "series_analysis" \in DOMAIN report =>
              report.series_analysis = series_performance
        /\ "tag_recommendations" \in DOMAIN report =>
              report.tag_recommendations = tag_recommendations.groups

(* ---- the projection, once get_data_for_llm_analysis has returned ------ *)
Projected == pc = "projected"

(* an entry of the projection and the entry of the full list it shows *)
SamePost(e, row) == e.title = row.title /\ e.views = row.page_views_count
SameTag(e, st) == e.tag = st.tag /\ e.posts = st.count
SameSeries(e, entry) == e.title = entry.title /\ e.article_count = entry.article_count
SameSlot(e, slot) == e = slot

(* list has at most n entries, and they are the leading entries of full *)
Leads(list, full, n, kind) ==
    /\ Len(list) <= n
    /\ Len(list) <= Len(full)
    /\ \A k \in 1..Len(list) :
          CASE kind = "post" -> SamePost(list[k], full[k])
            [] kind = "tag" -> SameTag(list[k], full[k])
            [] kind = "series" -> SameSeries(list[k], full[k])
            [] kind = "slot" -> SameSlot(list[k], full[k])

(* the best hours: at most n slots of by_hour, by avg_views, descending *)
BestHoursLead(n) ==
    LET by_hour == metrics.time_performance.by_hour
        listed == { llm_data.best_hours[k].hour : k \in 1..Len(llm_data.best_hours) }
    IN /\ Len(llm_data.best_hours) <= n
       /\ Cardinality(listed) = Len(llm_data.best_hours)
       /\ \A k \in 1..Len(llm_data.best_hours) :
             \E j \in 1..Len(by_hour) : by_hour[j] = llm_data.best_hours[k]
       /\ \A k \in 1..(Len(llm_data.best_hours) - 1) :
             ~QGreater(llm_data.best_hours[k + 1].avg_views,
                       llm_data.best_hours[k].avg_views)
       /\ \A k \in 1..Len(llm_data.best_hours) : \A j \in 1..Len(by_hour) :
             by_hour[j].hour \notin listed =>
                ~QGreater(by_hour[j].avg_views, llm_data.best_hours[k].avg_views)

ProjectionLeads(seriesListed) ==
    /\ Leads(llm_data.top_performing_posts, metrics.most_viewed, 5, "post")
    /\ Leads(llm_data.highest_engagement_posts, metrics.highest_engagement, 5, "post")
    /\ Leads(llm_data.top_tags, metrics.tag_performance, 10, "tag")
    /\ BestHoursLead(5)
    /\ "series_performance" \in DOMAIN llm_data =>
          Leads(llm_data.series_performance, series_performance, seriesListed, "series")
    /\ "best_day_hour_combinations" \in DOMAIN llm_data =>
          Leads(llm_data.best_day_hour_combinations, time_analysis.best_combinations,
                3, "slot")

AtLeastOne(v) == IF v > 1 THEN v ELSE 1

(* C19: engagement_ratio = (reactions + comments) / max(views, 1) and      *)
(* time_efficiency = reactions / max(reading_time_minutes, 1); both are    *)
(* defined (no division by zero) and not negative for every article, also  *)
(* one with 0 views or a reading time of 0                                 *)
C19_RatiosDefined ==
    Computed =>
        \A p \in 1..Len(metrics.most_viewed) :
           LET row == metrics.most_viewed[p] IN
           /\ row.engagement_ratio.den > 0
           /\ row.engagement_ratio.num >= 0
           /\ QEq(row.engagement_ratio,
                  Q(row.public_reactions_count + row.comments_count,
                    AtLeastOne(row.page_views_count)))
           /\ row.time_efficiency.den > 0
           /\ row.time_efficiency.num >= 0
           /\ QEq(row.time_efficiency,
                  Q(row.public_reactions_count, AtLeastOne(row.reading_time_minutes)))

C19_Witness ==
    /\ Computed
    /\ \E p \in 1..Len(metrics.most_viewed) :
          /\ metrics.most_viewed[p].page_views_count = 0
          /\ metrics.most_viewed[p].reading_time_minutes = 0
          /\ metrics.most_viewed[p].public_reactions_count > 0

(* C20: every article of the metric computations has page_views_count,     *)
(* public_reactions_count, comments_count and reading_time_minutes present *)
(* (not null) and not negative, whatever the payload left out or set null  *)
C20_CountsPresent ==
    Computed =>
        /\ Len(metrics.most_viewed) = Len(detailed_articles)
        /\ \A p \in 1..Len(metrics.most_viewed) :
              LET row == metrics.most_viewed[p] IN
              /\ Present(row.page_views_count)
              /\ Present(row.public_reactions_count)
              /\ Present(row.comments_count)
              /\ Present(row.reading_time_minutes)
        /\ metrics.overall_stats.total_views >= 0
        /\ metrics.overall_stats.total_reactions >= 0
        /\ metrics.overall_stats.total_comments >= 0

C20_Witness ==
    /\ Computed
    /\ \E i \in 1..Len(detailed_articles) :
          /\ detailed_articles[i].public_reactions_count = Null
             \/ detailed_articles[i].comments_count = Null
          /\ detailed_articles[i].reading_time_minutes = Null

(* ------------- the time bucketing of an article without a timestamp ---- *)
WithoutTimestamp ==
    { i \in 1..Len(detailed_articles) : ~Present(detailed_articles[i].published_at) }

(* C21: once analyze_optimal_posting_times returned, the articles whose    *)
(* published_at is absent are counted in a day bucket 'Unknown' and in the *)
(* hour bucket 0, whether or not other articles have a timestamp           *)
C21_UndatedBucketedAsUnknown ==
    Timed /\ WithoutTimestamp # {} =>
        /\ \E k \in 1..Len(time_analysis.by_day) :
              /\ time_analysis.by_day[k].day = Unknown
              /\ time_analysis.by_day[k].stats.article_count
                    = Cardinality(WithoutTimestamp)
        /\ \E k \in 1..Len(time_analysis.by_hour) :
              /\ time_analysis.by_hour[k].hour = 0
              /\ time_analysis.by_hour[k].stats.article_count
                    >= Cardinality(WithoutTimestamp)

(* ------------------- duplicate tags of one article --------------------- *)
(* the articles whose tags, list or comma-separated string, name the tag *)
Carrying(tag) ==
    { i \in 1..Len(detailed_articles) : tag \in Carried(detailed_articles[i]) }

(* C22: the tags of an article are read without duplicates, whichever form *)
(* they come in: every TagStat counts each article carrying its tag once,  *)
(* in count and in the three totals                                        *)
C22_DuplicateTagCountsOnce ==
    Computed =>
        \A k \in 1..Len(metrics.tag_performance) :
            LET st == metrics.tag_performance[k] IN
            /\ st.count = Cardinality(Carrying(st.tag))
            /\ st.views = SumSet(Carrying(st.tag), ViewsAt)
            /\ st.reactions = SumSet(Carrying(st.tag), ReactionsAt)
            /\ st.comments = SumSet(Carrying(st.tag), CommentsAt)

(* ------------------- the synthesized view counts ----------------------- *)
DetailsAreStored == pc = "compute" /\ detailed_articles # <<>>

(* the stored articles whose view count get_detailed_articles drew: the    *)
(* platform gives none of RandLo or more                                   *)
Synthesized ==
    { i \in 1..Len(detailed_articles) : detailed_articles[i].page_views_count >= RandLo }

(* C23: the view count synthesized for an article is a function of its     *)
(* reactions and comments counts: stored articles with the same two counts *)
(* have the same synthesized view count                                    *)
C23_SyntheticViewsAreFunction ==
    DetailsAreStored =>
        \A i, j \in Synthesized :
            /\ detailed_articles[i].public_reactions_count
                  = detailed_articles[j].public_reactions_count
            /\ detailed_articles[i].comments_count = detailed_articles[j].comments_count
            => detailed_articles[i].page_views_count = detailed_articles[j].page_views_count

(* --------------------- the requests of one run ------------------------- *)
(* no list page and no article detail was requested twice *)
NothingRequestedTwice ==
    /\ \A i, j \in 1..Len(requests) : requests[i] = requests[j] => i = j
    /\ \A i, j \in 1..Len(detail_requests) :
          detail_requests[i].id = detail_requests[j].id => i = j

(* a step of a run whose first aggregate is there issues no request *)
NoFetchOnceComputed ==
    metrics.status = "ok" =>
        requests' = requests /\ detail_requests' = detail_requests

(* C24: within one run no list page and no article detail is requested     *)
(* more than once, also when the fetch returned no article or failed on    *)
(* the first page, and no request is issued once the first aggregate has   *)
(* been computed                                                           *)
C24_NoRepeatedRequest == []NothingRequestedTwice /\ [][NoFetchOnceComputed]_vars

(* ------------------------- the most used tags -------------------------- *)
(* the post count of a tag, as its TagStat has it *)
PostCount(tag) ==
    LET tp == metrics.tag_performance
        k == CHOOSE k \in 1..Len(tp) : tp[k].tag = tag
    IN tp[k].count

NoCallRunning == pc \in {"fetched", "raised"}

(* self.series holds the series named by the articles arts and, for each,  *)
(* the articles of arts that name it, and nothing else                     *)
SeriesDerivedFrom(arts) ==
    LET named == { arts[i].series : i \in 1..Len(arts) } \ {NoSeries} IN
    /\ Len(series) = Cardinality(named)
    /\ { series[k].id : k \in 1..Len(series) } = named
    /\ \A k \in 1..Len(series) :
          LET members == { i \in 1..Len(arts) : arts[i].series = series[k].id } IN
          /\ Len(series[k].articles) = Cardinality(members)
          /\ { series[k].articles[j].id : j \in 1..Len(series[k].articles) }
                = { arts[i].id : i \in members }

(* C26: whenever no fetch_all_articles call is running, self.series is the *)
(* series of the articles the most recent call stored, with no series and  *)
(* no member of an earlier call                                            *)
C26_SeriesOfLatestFetch == NoCallRunning => SeriesDerivedFrom(articles)

(* -------------- the view counts of series and of rankings -------------- *)
Ranked(id) == \E p \in 1..Len(metrics.most_viewed) : metrics.most_viewed[p].id = id

(* the page_views_count the ranking by views reports for the article *)
RankedViews(id) ==
    metrics.most_viewed[CHOOSE p \in 1..Len(metrics.most_viewed) :
                            metrics.most_viewed[p].id = id].page_views_count

(* C27: for every article of a series that the rankings of the run hold,   *)
(* the 'views' analyze_series_performance lists for it is the              *)
(* page_views_count the rankings report for the same id, and total_views   *)
(* of a series whose articles are all ranked is the sum of these           *)
C27_SeriesViewsAreRankedViews ==
    pc = "done" =>
        \A k \in 1..Len(series_performance) :
            LET e == series_performance[k]
                ids == { e.articles[j].id : j \in 1..Len(e.articles) }
            IN /\ \A j \in 1..Len(e.articles) :
                     Ranked(e.articles[j].id) =>
                        e.articles[j].views = RankedViews(e.articles[j].id)
               /\ (\A id \in ids : Ranked(id)) =>
                     e.total_views = SumSet(ids, [id \in ids |-> RankedViews(id)])

(* ------------- the projection against the report before it ------------- *)
(* the entries of the projection are the first n of the report's list *)
FirstOfReport(list, full, n, kind) ==
    Len(list) = Min(n, Len(full)) /\ Leads(list, full, n, kind)

(* C28: once the handler has the report and then the projection, the       *)
(* projection's top_performing_posts and highest_engagement_posts are the  *)
(* first 5 entries of the report's by_views and by_engagement rankings and *)
(* its top_tags the first 10 of the report's tag_performance               *)
C28_ProjectionOfTheReport ==
    Projected =>
        /\ FirstOfReport(llm_data.top_performing_posts, report.top_posts.by_views,
                         5, "post")
        /\ FirstOfReport(llm_data.highest_engagement_posts,
                         report.top_posts.by_engagement, 5, "post")
        /\ FirstOfReport(llm_data.top_tags, report.tag_performance, 10, "tag")

(* ------------------ the analyses and the article store ----------------- *)
(* C29: a step of calculate_metrics, analyze_series_performance,           *)
(* analyze_optimal_posting_times or generate_tag_recommendations on an     *)
(* analyzer whose detailed articles are there leaves articles,             *)
(* detailed_articles and series as they were and issues no request         *)
C29_AnalysesReadOnly ==
    [][detailed_articles # <<>> =>
          /\ articles' = articles
          /\ detailed_articles' = detailed_articles
          /\ series' = series
          /\ requests' = requests
          /\ detail_requests' = detail_requests]_vars

(* the series of a stored, non-empty set of articles have been analyzed    *)
(* after the metrics                                                       *)
C29_Witness ==
    /\ pc = "done"
    /\ detailed_articles # <<>>
    /\ metrics.status = "ok"
    /\ Len(series_performance) > 0
    /\ series # <<>>

(* ----------------------- the normalization of tags --------------------- *)
(* C30: _normalize_tag is idempotent: normalizing the tag that              *)
(* _normalize_tag returned returns that same tag, for every tag and in      *)
(* particular for the display forms of special_cases                        *)
C30_NormalizeIdempotent ==
    pc = "normalized_again" => normalized = given_tag

====
